---- MODULE Spec2Model ----
(***************************************************************************)
(* 6-Nimmt backend: the rule engine (resolve_card_placement and its        *)
(* helpers), the turn resolvers and the turn controllers of MCTS.py and    *)
(* minimax2.py, and the GameState simulation of minimax_1.py.              *)
(*                                                                         *)
(* A board is the State model of the sources: a record of the scalar       *)
(* fields and `cards`, the list of Card records in list order.  Python     *)
(* mutates Card objects in place; here a card is addressed by its index    *)
(* in the list and every operation returns the new board.                  *)
(***************************************************************************)
EXTENDS Integers, Sequences, FiniteSets, TLC

VARIABLES
    state,      \* the board held by the caller and sent with each request
    program,    \* which backend file serves the board
    last,       \* the last operation applied, with the board it was given
    search      \* a search in progress: its boards, its nodes, its position

vars == <<state, program, last, search>>

\* Cards dealt to each hand in a starting board.
HandSize == 2

BoardRows == 1..4

----------------------------------------------------------------------------
(* Sequence helpers standing for Python's list comprehensions, sum, max.   *)

\* [i for i, c in enumerate(cards) if ...]: the indices in S, in list order
IdxWhere(cards, S) ==
    SelectSeq([i \in 1..Len(cards) |-> i], LAMBDA i : i \in S)

SeqRange(s) == {s[i] : i \in DOMAIN s}

\* sorted(seq, key=Key) and list.sort(key=Key): Python's sort is stable, each
\* element goes after the elements whose key is not greater
\* keys[n] is the key of seq[n]
SortedBy(seq, keys) ==
    LET Insert(sorted, n) ==
            LET pos == Cardinality({i \in DOMAIN sorted : keys[sorted[i]] <= keys[n]})
            IN SubSeq(sorted, 1, pos) \o <<n>> \o SubSeq(sorted, pos + 1, Len(sorted))
        F[n \in 0..Len(seq)] == IF n = 0 THEN <<>> ELSE Insert(F[n - 1], n)
    IN [i \in DOMAIN seq |-> seq[F[Len(seq)][i]]]

\* next(i for i, c in enumerate(cards) if c.cardNumber == num)
FindCard(cards, num) == IdxWhere(cards, {i \in DOMAIN cards : cards[i].cardNumber = num})[1]

----------------------------------------------------------------------------
(* Rule engine, MCTS.py lines 56-128 (minimax2.py lines 55-127 are the     *)
(* same text).                                                             *)

get_bull_heads(card) ==
    IF card.cardNumber = 55 THEN 7
    ELSE IF card.cardNumber % 11 = 0 THEN 5
    ELSE IF card.cardNumber % 10 = 0 THEN 3
    ELSE IF card.cardNumber % 5 = 0 THEN 2
    ELSE 1

\* sum(...) over a list of numbers
SumSeq(vals) ==
    LET F[n \in 0..Len(vals)] == IF n = 0 THEN 0 ELSE F[n - 1] + vals[n]
    IN F[Len(vals)]

\* sum(get_bull_heads(c) for c in r_cards)
SumBullHeads(cards, idxs) ==
    SumSeq([n \in DOMAIN idxs |-> get_bull_heads(cards[idxs[n]])])

\* the active cards of row r, in list order
ActiveRow(cards, r) ==
    IdxWhere(cards, {i \in DOMAIN cards : cards[i].rowNumber = r /\ ~cards[i].isInBullHeadStack})

\* rows: the active cards of each board row
Rows(cards) == [r \in BoardRows |-> ActiveRow(cards, r)]

\* a variant of RowEndByCol: the card of the row that is listed last
RowEndLastListed(cards, idxs) == idxs[Len(idxs)]

\* max(r_cards, key=lambda c: c.colNumber): the first card of maximal column
RowEndByCol(cards, idxs) ==
    CHOOSE i \in SeqRange(idxs) :
        \A j \in SeqRange(idxs) :
            \/ cards[j].colNumber < cards[i].colNumber
            \/ cards[j].colNumber = cards[i].colNumber /\ j >= i

\* row_ends: the end card of every non-empty row
RowEnds(cards, rows) ==
    [r \in {q \in BoardRows : rows[q] # <<>>} |-> RowEndByCol(cards, rows[r])]

\* valid_rows: the rows whose end card is below the played card
ValidRows(cards, row_ends, k) ==
    {r \in DOMAIN row_ends : cards[row_ends[r]].cardNumber < cards[k].cardNumber}

\* a variant of TargetRow: the valid row of the lowest end
LowestValidRow(cards, row_ends, valid_rows) ==
    CHOOSE r \in valid_rows :
        \A q \in valid_rows :
            cards[row_ends[q]].cardNumber >= cards[row_ends[r]].cardNumber

\* max(valid_rows, key=lambda r: valid_rows[r].cardNumber): dict order is
\* row order, so the first row of maximal end face
TargetRow(cards, row_ends, valid_rows) ==
    CHOOSE r \in valid_rows :
        \A q \in valid_rows :
            \/ cards[row_ends[q]].cardNumber < cards[row_ends[r]].cardNumber
            \/ cards[row_ends[q]].cardNumber = cards[row_ends[r]].cardNumber /\ q >= r

\* row_bullheads: the bullhead sum of every non-empty row
RowBullHeads(cards, rows) ==
    [r \in {q \in BoardRows : rows[q] # <<>>} |-> SumBullHeads(cards, rows[r])]

\* a variant of RowToTake: the row of the highest bullhead sum
CostliestRow(row_bullheads) ==
    IF DOMAIN row_bullheads = {} THEN 1
    ELSE CHOOSE r \in DOMAIN row_bullheads :
            \A q \in DOMAIN row_bullheads : row_bullheads[q] <= row_bullheads[r]

\* min(row_bullheads, key=row_bullheads.get), or 1 when every row is empty
RowToTake(row_bullheads) ==
    IF DOMAIN row_bullheads = {} THEN 1
    ELSE CHOOSE r \in DOMAIN row_bullheads :
            \A q \in DOMAIN row_bullheads :
                \/ row_bullheads[q] > row_bullheads[r]
                \/ row_bullheads[q] = row_bullheads[r] /\ q >= r

\* a variant of _place_card_on_board that puts every card in column 0
PlaceInColumnZero(card, row_num, col_num) ==
    [card EXCEPT !.rowNumber = row_num,
                 !.colNumber = 0,
                 !.isFlipped = FALSE,
                 !.isSelect = FALSE,
                 !.isInDrawPile = FALSE]

_place_card_on_board(card, row_num, col_num) ==
    [card EXCEPT !.rowNumber = row_num,
                 !.colNumber = col_num,
                 !.isFlipped = FALSE,
                 !.isSelect = FALSE,
                 !.isInDrawPile = FALSE]

\* the loop of _take_row_and_update_score over cards_in_row
TakeCards(cards, cards_in_row, is_player_taking) ==
    [i \in DOMAIN cards |->
        IF i \in SeqRange(cards_in_row)
        THEN [cards[i] EXCEPT !.isInBullHeadStack = TRUE,
                              !.isFlipped = TRUE,
                              !.rowNumber = IF is_player_taking THEN 5 ELSE 0]
        ELSE cards[i]]

\* a variant of _take_row_and_update_score that leaves the scores alone
TakeRowWithoutScore(st, row_num, is_player_taking) ==
    [st EXCEPT !.cards = TakeCards(st.cards, ActiveRow(st.cards, row_num), is_player_taking)]

\* a variant of _take_row_and_update_score that credits the other side
TakeRowScoresOtherSide(st, row_num, is_player_taking) ==
    IF is_player_taking
    THEN [st EXCEPT
            !.cards = TakeCards(st.cards, ActiveRow(st.cards, row_num), TRUE),
            !.aiScore = @ + SumBullHeads(st.cards, ActiveRow(st.cards, row_num))]
    ELSE [st EXCEPT
            !.cards = TakeCards(st.cards, ActiveRow(st.cards, row_num), FALSE),
            !.playerScore = @ + SumBullHeads(st.cards, ActiveRow(st.cards, row_num))]

_take_row_and_update_score(st, row_num, is_player_taking) ==
    IF is_player_taking
    THEN [st EXCEPT
            !.cards = TakeCards(st.cards, ActiveRow(st.cards, row_num), TRUE),
            !.playerScore = @ + SumBullHeads(st.cards, ActiveRow(st.cards, row_num))]
    ELSE [st EXCEPT
            !.cards = TakeCards(st.cards, ActiveRow(st.cards, row_num), FALSE),
            !.aiScore = @ + SumBullHeads(st.cards, ActiveRow(st.cards, row_num))]

\* _take_row_and_update_score(...) then _place_card_on_board(card, row, 0)
TakeThenPlace(st, k, row_num, is_player_move) ==
    [_take_row_and_update_score(st, row_num, is_player_move)
        EXCEPT !.cards[k] = _place_card_on_board(@, row_num, 0)]

\* a variant of PlaceInTarget that never takes the row
PlaceWithoutTaking(st, k, is_player_move, rows, target_row_num) ==
    [st EXCEPT !.cards[k] =
        _place_card_on_board(@, target_row_num, Len(rows[target_row_num]))]

\* the branch `if valid_rows:` of resolve_card_placement
PlaceInTarget(st, k, is_player_move, rows, target_row_num) ==
    IF Len(rows[target_row_num]) = 5
    THEN TakeThenPlace(st, k, target_row_num, is_player_move)
    ELSE [st EXCEPT !.cards[k] =
             _place_card_on_board(@, target_row_num, Len(rows[target_row_num]))]

\* resolve_card_placement once rows, row_ends and valid_rows are computed
ResolveInRows(st, k, is_player_move, rows, row_ends, valid_rows) ==
    IF valid_rows # {}
    THEN PlaceInTarget(st, k, is_player_move, rows,
                       TargetRow(st.cards, row_ends, valid_rows))
    ELSE TakeThenPlace(st, k, RowToTake(RowBullHeads(st.cards, rows)), is_player_move)

ResolveWithEnds(st, k, is_player_move, rows, row_ends) ==
    ResolveInRows(st, k, is_player_move, rows, row_ends,
                  ValidRows(st.cards, row_ends, k))

ResolveWithRows(st, k, is_player_move, rows) ==
    ResolveWithEnds(st, k, is_player_move, rows, RowEnds(st.cards, rows))

\* the board after placing the card at index k for the given side
resolve_card_placement(st, k, is_player_move) ==
    ResolveWithRows(st, k, is_player_move, Rows(st.cards))

----------------------------------------------------------------------------
(* Starting boards: the caller's input.                                    *)

\* Row contents of the input boards, each row in column order.
StandardStart == <<<<8>>, <<19>>, <<30>>, <<43>>>>

Layouts ==
    { <<<<3>>, <<17>>, <<42>>, <<>>>>,
      <<<<10, 11, 12, 15, 16>>, <<30, 31, 32, 33>>, <<70>>, <<80>>>>,
      <<<<55>>, <<66>>, <<70>>, <<61>>>>,
      <<<<>>, <<>>, <<>>, <<>>>>,
      StandardStart }

AiPool == {2, 20, 44}
PlayerPool == {5, 21, 60}

RECURSIVE SetToSeq(_)
SetToSeq(S) ==
    IF S = {} THEN <<>>
    ELSE LET m == CHOOSE x \in S : \A y \in S : x <= y
         IN <<m>> \o SetToSeq(S \ {m})

NewCard(num, row, col, flipped) ==
    [cardNumber |-> num, isFlipped |-> flipped, isSelect |-> FALSE,
     rowNumber |-> row, colNumber |-> col,
     isInBullHeadStack |-> FALSE, isInDrawPile |-> FALSE]

RowOfCards(faces, row) == [i \in DOMAIN faces |-> NewCard(faces[i], row, i - 1, FALSE)]

StartBoard(layout, ai, player, ended) ==
    [hasStarted |-> TRUE, playerTurn |-> TRUE, hasEnded |-> ended,
     playerScore |-> 0, aiScore |-> 0, playerWon |-> FALSE, aiWon |-> FALSE,
     aiAlgo |-> 0,
     cards |-> RowOfCards(layout[1], 1) \o RowOfCards(layout[2], 2)
               \o RowOfCards(layout[3], 3) \o RowOfCards(layout[4], 4)
               \o [i \in 1..Len(ai) |-> NewCard(ai[i], 0, i - 1, TRUE)]
               \o [i \in 1..Len(player) |-> NewCard(player[i], 5, i - 1, FALSE)]]

Hands(pool) == {SetToSeq(h) : h \in {s \in SUBSET pool : Cardinality(s) = HandSize}}

ai_hand(cards) == IdxWhere(cards, {i \in DOMAIN cards : cards[i].rowNumber = 0 /\ ~cards[i].isInBullHeadStack})
player_hand(cards) == IdxWhere(cards, {i \in DOMAIN cards : cards[i].rowNumber = 5 /\ ~cards[i].isInBullHeadStack})

Faces(cards, idxs) == {cards[i].cardNumber : i \in SeqRange(idxs)}

----------------------------------------------------------------------------
(* Turn resolver, MCTS.py lines 130-143.                                   *)

\* a variant of SortedByCardNumber: the pairs as they were listed
Unsorted(cards, pairs) == pairs

\* sorted(pairs, key=lambda x: x[0].cardNumber)
SortedByCardNumber(cards, pairs) ==
    SortedBy(pairs, [n \in DOMAIN pairs |-> cards[pairs[n][1]].cardNumber])

\* for card, is_player in played_cards: resolve_card_placement(state, card, is_player)
RECURSIVE ResolveAll(_, _)
ResolveAll(st, played_cards) ==
    IF played_cards = <<>> THEN st
    ELSE ResolveAll(resolve_card_placement(st, Head(played_cards)[1], Head(played_cards)[2]),
                    Tail(played_cards))

play_one_turn(st, ai_card_num, player_card_num) ==
    ResolveAll(st, SortedByCardNumber(st.cards,
                      <<<<FindCard(st.cards, ai_card_num), FALSE>>,
                        <<FindCard(st.cards, player_card_num), TRUE>>>>))

----------------------------------------------------------------------------
(* MCTS search result and turn controller, MCTS.py lines 244-323.          *)

\* The cards find_best_move_mcts may return.  The root gets one child per
\* automated hand card (expand needs a non-empty opposing hand and a board
\* that has not ended); which child collects the most visits depends on the
\* random rollouts, so the result is any of them.  With no child,
\* max(root.children) raises: the empty set.
find_best_move_mcts(st) ==
    IF player_hand(st.cards) = <<>> \/ st.hasEnded
    THEN {}
    ELSE Faces(st.cards, ai_hand(st.cards))

\* a variant of EndGame in which the higher score wins
EndGameHigherWins(new_state) ==
    IF player_hand(new_state.cards) # <<>> THEN new_state
    ELSE IF new_state.playerScore > new_state.aiScore
         THEN [new_state EXCEPT !.hasEnded = TRUE, !.playerWon = TRUE]
    ELSE IF new_state.aiScore > new_state.playerScore
         THEN [new_state EXCEPT !.hasEnded = TRUE, !.aiWon = TRUE]
    ELSE [new_state EXCEPT !.hasEnded = TRUE]

\* a variant of EndGame that gives a tie to the opposing side
EndGameTieToPlayer(new_state) ==
    IF player_hand(new_state.cards) # <<>> THEN new_state
    ELSE IF new_state.playerScore <= new_state.aiScore
         THEN [new_state EXCEPT !.hasEnded = TRUE, !.playerWon = TRUE]
    ELSE [new_state EXCEPT !.hasEnded = TRUE, !.aiWon = TRUE]

\* a variant of EndGame that ends the game while one opposing card is left
EndGameAtLastCard(new_state) ==
    IF Len(player_hand(new_state.cards)) > 1 THEN new_state
    ELSE IF new_state.playerScore < new_state.aiScore
         THEN [new_state EXCEPT !.hasEnded = TRUE, !.playerWon = TRUE]
    ELSE IF new_state.aiScore < new_state.playerScore
         THEN [new_state EXCEPT !.hasEnded = TRUE, !.aiWon = TRUE]
    ELSE [new_state EXCEPT !.hasEnded = TRUE]

\* the game end of step 4 of calculate_final_turn
EndGame(new_state) ==
    IF player_hand(new_state.cards) # <<>> THEN new_state
    ELSE IF new_state.playerScore < new_state.aiScore
         THEN [new_state EXCEPT !.hasEnded = TRUE, !.playerWon = TRUE]
    ELSE IF new_state.aiScore < new_state.playerScore
         THEN [new_state EXCEPT !.hasEnded = TRUE, !.aiWon = TRUE]
    ELSE [new_state EXCEPT !.hasEnded = TRUE]

\* step 4 of calculate_final_turn: clear the selection, detect the game end
post_turn_cleanup(new_state, player_card_num) ==
    EndGame([new_state EXCEPT
                !.cards[FindCard(new_state.cards, player_card_num)].isSelect = FALSE])

Result(board, outcome, ai, player) ==
    [board |-> board, outcome |-> outcome, ai |-> ai, player |-> player]

\* a variant of SelectedCards: every row-5 card, marked or not
AnyRowFiveCard(cards) == IdxWhere(cards, {i \in DOMAIN cards : cards[i].rowNumber = 5})

\* player_selected_card_orig: the first row-5 card marked selected, as a list
SelectedCards(cards) == IdxWhere(cards, {i \in DOMAIN cards : cards[i].rowNumber = 5 /\ cards[i].isSelect})

\* steps 3 and 4 of calculate_final_turn for the chosen pair of cards
FinalTurn(st, ai_num, player_num) ==
    Result(post_turn_cleanup(play_one_turn(st, ai_num, player_num), player_num),
           "resolved", ai_num, player_num)

\* a variant of calculate_final_turn without the test of the automated hand
FinalTurnWithoutHandTest(st) ==
    IF SelectedCards(st.cards) = <<>> THEN {Result(st, "no_select", 0, 0)}
    ELSE IF find_best_move_mcts(st) = {} THEN {Result(st, "raise", 0, 0)}
    ELSE {FinalTurn(st, a, st.cards[SelectedCards(st.cards)[1]].cardNumber) :
             a \in find_best_move_mcts(st)}

\* every result calculate_final_turn of MCTS.py can give on st
calculate_final_turn(st) ==
    IF SelectedCards(st.cards) = <<>> THEN {Result(st, "no_select", 0, 0)}
    ELSE IF ai_hand(st.cards) = <<>> THEN {Result(st, "no_ai", 0, 0)}
    ELSE IF find_best_move_mcts(st) = {} THEN {Result(st, "raise", 0, 0)}
    ELSE {FinalTurn(st, a, st.cards[SelectedCards(st.cards)[1]].cardNumber) :
             a \in find_best_move_mcts(st)}

\* a variant of process_request without the test of hasEnded
RequestWithoutEndTest(st) == calculate_final_turn(st)

process_request(st) ==
    IF st.hasEnded THEN {Result(st, "ended", 0, 0)} ELSE calculate_final_turn(st)

----------------------------------------------------------------------------
(* Alpha-beta search and turn controller of minimax2.py, lines 133-328.    *)

SEARCH_DEPTH == 3

\* math.inf, above every evaluation
INF == 1000000000

\* every card whose rowNumber is r, in a penalty stack or not
RowOfBoard(cards, r) == IdxWhere(cards, {i \in DOMAIN cards : cards[i].rowNumber = r})

\* a danger that grows with num_cards / 5 instead of its square (times 25)
LinearDanger(cards, r_cards) == 5 * Len(r_cards) * SumBullHeads(cards, r_cards)

\* 25 * danger_factor * bulls of a row: (num_cards / 5) ** 2 * bulls
Danger25(cards, r_cards) == Len(r_cards) * Len(r_cards) * SumBullHeads(cards, r_cards)

\* evaluate_board times 25: the danger terms are multiples of 1/25, so
\* 25 * evaluate_board is the integer computed here
evaluate_board(st) ==
    IF st.hasEnded
    THEN IF st.aiWon THEN 25 * 10000
         ELSE IF st.playerWon THEN -(25 * 10000)
         ELSE 0
    ELSE 25 * ((st.playerScore - st.aiScore) * 10)
         - ( Danger25(st.cards, RowOfBoard(st.cards, 1))
           + Danger25(st.cards, RowOfBoard(st.cards, 2))
           + Danger25(st.cards, RowOfBoard(st.cards, 3))
           + Danger25(st.cards, RowOfBoard(st.cards, 4)) )

\* a variant of simulate_turn that resolves the automated card first
SimulateAutomatedFirst(st, ai_card, player_card) ==
    ResolveAll(st, <<<<FindCard(st.cards, st.cards[ai_card].cardNumber), FALSE>>,
                     <<FindCard(st.cards, st.cards[player_card].cardNumber), TRUE>>>>)

\* the board after the round of the two cards (given by index), on a copy
simulate_turn(st, ai_card, player_card) ==
    ResolveAll(st, SortedByCardNumber(st.cards,
                      <<<<FindCard(st.cards, st.cards[ai_card].cardNumber), FALSE>>,
                        <<FindCard(st.cards, st.cards[player_card].cardNumber), TRUE>>>>))

\* the first card of the hand whatever its face, 0 for None
FirstCard(cards, hand) == IF hand = <<>> THEN 0 ELSE hand[1]

\* min(hand, key=lambda c: c.cardNumber, default=None): the first card of
\* minimal face, 0 for None
LowestCard(cards, hand) ==
    IF hand = <<>> THEN 0
    ELSE CHOOSE i \in SeqRange(hand) :
            \A j \in SeqRange(hand) :
                \/ cards[j].cardNumber > cards[i].cardNumber
                \/ cards[j].cardNumber = cards[i].cardNumber /\ j >= i

Max(a, b) == IF a >= b THEN a ELSE b
Min(a, b) == IF a <= b THEN a ELSE b

\* a leaf that hands out the default move of the loops, ai_hand[0]
DefaultMoveLeaf(st) ==
    [value |-> evaluate_board(st),
     move |-> IF ai_hand(st.cards) = <<>> THEN 0 ELSE ai_hand(st.cards)[1]]

\* return evaluate_board(state), None
Leaf(st) == [value |-> evaluate_board(st), move |-> 0]

\* [value, move]: the evaluation and the chosen card's index (0 for None)
RECURSIVE minimax_alpha_beta(_, _, _, _, _)
RECURSIVE MaxLoop(_, _, _, _, _, _, _, _)
RECURSIVE MaxStep(_, _, _, _, _, _, _, _, _)
RECURSIVE MinLoop(_, _, _, _, _, _, _, _)
RECURSIVE MinStep(_, _, _, _, _, _, _, _, _)

\* `for ai_move_card in ai_hand` from position n on, with the running alpha,
\* max_eval and best_move_card
MaxLoop(st, depth, n, alpha, beta, max_eval, best_move_card, player_predictable_move) ==
    IF n > Len(ai_hand(st.cards))
    THEN [value |-> max_eval, move |-> best_move_card]
    ELSE MaxStep(st, depth, n, alpha, beta, max_eval, best_move_card,
                 player_predictable_move,
                 minimax_alpha_beta(
                     simulate_turn(st, ai_hand(st.cards)[n], player_predictable_move),
                     depth - 1, alpha, beta, FALSE).value)

\* an iteration that also leaves the loop on a card that does not raise alpha
ImpatientMaxStep(st, depth, n, alpha, beta, max_eval, best_move_card, player_predictable_move, current_eval) ==
    IF beta <= Max(alpha, current_eval) \/ current_eval <= alpha
    THEN [value |-> Max(max_eval, current_eval),
          move |-> IF current_eval > max_eval THEN ai_hand(st.cards)[n]
                                              ELSE best_move_card]
    ELSE MaxLoop(st, depth, n + 1, Max(alpha, current_eval), beta,
                 Max(max_eval, current_eval),
                 IF current_eval > max_eval THEN ai_hand(st.cards)[n] ELSE best_move_card,
                 player_predictable_move)

\* the rest of one iteration once current_eval is known
MaxStep(st, depth, n, alpha, beta, max_eval, best_move_card, player_predictable_move, current_eval) ==
    IF beta <= Max(alpha, current_eval)
    THEN [value |-> Max(max_eval, current_eval),
          move |-> IF current_eval > max_eval THEN ai_hand(st.cards)[n]
                                              ELSE best_move_card]
    ELSE MaxLoop(st, depth, n + 1, Max(alpha, current_eval), beta,
                 Max(max_eval, current_eval),
                 IF current_eval > max_eval THEN ai_hand(st.cards)[n] ELSE best_move_card,
                 player_predictable_move)

\* `for player_move_card in player_hand` from position n on
MinLoop(st, depth, n, alpha, beta, min_eval, best_move_card, ai_predictable_move) ==
    IF n > Len(player_hand(st.cards))
    THEN [value |-> min_eval, move |-> best_move_card]
    ELSE MinStep(st, depth, n, alpha, beta, min_eval, best_move_card,
                 ai_predictable_move,
                 minimax_alpha_beta(
                     simulate_turn(st, ai_predictable_move, player_hand(st.cards)[n]),
                     depth - 1, alpha, beta, TRUE).value)

MinStep(st, depth, n, alpha, beta, min_eval, best_move_card, ai_predictable_move, current_eval) ==
    IF Min(beta, current_eval) <= alpha
    THEN [value |-> Min(min_eval, current_eval),
          move |-> IF current_eval < min_eval THEN player_hand(st.cards)[n]
                                              ELSE best_move_card]
    ELSE MinLoop(st, depth, n + 1, alpha, Min(beta, current_eval),
                 Min(min_eval, current_eval),
                 IF current_eval < min_eval THEN player_hand(st.cards)[n]
                                            ELSE best_move_card,
                 ai_predictable_move)

minimax_alpha_beta(st, depth, alpha, beta, is_maximizing_player) ==
    IF depth = 0 \/ st.hasEnded THEN Leaf(st)
    ELSE IF is_maximizing_player
         THEN IF ai_hand(st.cards) = <<>> THEN Leaf(st)
              ELSE IF player_hand(st.cards) = <<>> THEN Leaf(st)
              ELSE MaxLoop(st, depth, 1, alpha, beta, -INF, ai_hand(st.cards)[1],
                           LowestCard(st.cards, player_hand(st.cards)))
         ELSE IF player_hand(st.cards) = <<>> THEN Leaf(st)
              ELSE IF ai_hand(st.cards) = <<>> THEN Leaf(st)
              ELSE MinLoop(st, depth, 1, alpha, beta, INF, player_hand(st.cards)[1],
                           LowestCard(st.cards, ai_hand(st.cards)))

\* step 3 and 4 of calculate_final_turn of minimax2.py for the chosen cards
FinalTurnMinimax2(st, ai_num, player_num) ==
    Result(post_turn_cleanup(
               ResolveAll(st, SortedByCardNumber(st.cards,
                                 <<<<FindCard(st.cards, ai_num), FALSE>>,
                                   <<FindCard(st.cards, player_num), TRUE>>>>)),
               player_num),
           "resolved", ai_num, player_num)

\* calculate_final_turn once the search has returned best (0 for None)
AfterSearchMinimax2(st, best) ==
    IF best = 0 THEN {Result(st, "raise", 0, 0)}
    ELSE {FinalTurnMinimax2(st, st.cards[best].cardNumber,
                            st.cards[SelectedCards(st.cards)[1]].cardNumber)}

\* every result calculate_final_turn of minimax2.py can give on st
calculate_final_turn_minimax2(st) ==
    IF SelectedCards(st.cards) = <<>> THEN {Result(st, "no_select", 0, 0)}
    ELSE IF ai_hand(st.cards) = <<>> THEN {Result(st, "no_ai", 0, 0)}
    ELSE AfterSearchMinimax2(st,
             minimax_alpha_beta(st, SEARCH_DEPTH, -INF, INF, TRUE).move)

process_request_minimax2(st) ==
    IF st.hasEnded THEN {Result(st, "ended", 0, 0)}
    ELSE calculate_final_turn_minimax2(st)

----------------------------------------------------------------------------
(* GameState simulation and move generation of minimax_1.py, lines 44-231. *)
(* A GameState is the board record; only cards, playerScore and aiScore    *)
(* are read or written.  A taker is TRUE for 'player', FALSE for 'ai'.     *)

get_bullheads(card) ==
    IF card.cardNumber = 55 THEN 7
    ELSE IF card.cardNumber % 10 = 0 THEN 3
    ELSE IF card.cardNumber % 11 = 0 THEN 5
    ELSE IF card.cardNumber % 5 = 0 THEN 2
    ELSE 1

\* sum(get_bullheads(c) for c in ...)
SumBullheads1(cards, idxs) ==
    SumSeq([n \in DOMAIN idxs |-> get_bullheads(cards[idxs[n]])])

\* max(row_cards, key=lambda x: x["cardNumber"]): the first card of maximal
\* face among the active cards of the row, 0 for None
get_last_card_of_row(cards, row_number) ==
    IF ActiveRow(cards, row_number) = <<>> THEN 0
    ELSE CHOOSE i \in SeqRange(ActiveRow(cards, row_number)) :
            \A j \in SeqRange(ActiveRow(cards, row_number)) :
                \/ cards[j].cardNumber < cards[i].cardNumber
                \/ cards[j].cardNumber = cards[i].cardNumber /\ j >= i

count_cards_in_row(cards, row_number) == Len(ActiveRow(cards, row_number))

get_player_hand_indices(cards) ==
    IdxWhere(cards, {i \in DOMAIN cards : cards[i].rowNumber = 5 /\ ~cards[i].isInBullHeadStack})

get_ai_hand_indices(cards) ==
    IdxWhere(cards, {i \in DOMAIN cards : cards[i].rowNumber = 0 /\ ~cards[i].isInBullHeadStack})

\* one pass of the loop `for r in range(1, 5)` of deterministic_row_for_card
\* on the running [best_last_num, candidate_row]
DeterministicRowStep(cards, card_number, acc, r, last_card) ==
    IF last_card = 0 THEN acc
    ELSE IF cards[last_card].cardNumber < card_number
            /\ cards[last_card].cardNumber > acc.best_last_num
         THEN [best_last_num |-> cards[last_card].cardNumber, candidate_row |-> r]
         ELSE acc

\* candidate_row after the loop, 0 for None
deterministic_row_for_card(cards, card_number) ==
    LET F[r \in 0..4] ==
            IF r = 0 THEN [best_last_num |-> -1, candidate_row |-> 0]
            ELSE DeterministicRowStep(cards, card_number, F[r - 1], r,
                                      get_last_card_of_row(cards, r))
    IN F[4].candidate_row

\* the loop of take_row: every active card of the row goes to the taker
take_row(st, taker, row) ==
    IF taker
    THEN [st EXCEPT
            !.cards = [i \in DOMAIN st.cards |->
                         IF st.cards[i].rowNumber = row /\ ~st.cards[i].isInBullHeadStack
                         THEN [st.cards[i] EXCEPT !.rowNumber = 5,
                                                  !.isInBullHeadStack = TRUE,
                                                  !.isFlipped = TRUE]
                         ELSE st.cards[i]],
            !.playerScore = @ + SumBullheads1(st.cards, ActiveRow(st.cards, row))]
    ELSE [st EXCEPT
            !.cards = [i \in DOMAIN st.cards |->
                         IF st.cards[i].rowNumber = row /\ ~st.cards[i].isInBullHeadStack
                         THEN [st.cards[i] EXCEPT !.rowNumber = 0,
                                                  !.isInBullHeadStack = TRUE,
                                                  !.isFlipped = TRUE]
                         ELSE st.cards[i]],
            !.aiScore = @ + SumBullheads1(st.cards, ActiveRow(st.cards, row))]

\* the four assignments that put the played card into chosen_row
PutCard(st, card_index, chosen_row) ==
    [st EXCEPT !.cards[card_index] =
        [@ EXCEPT !.rowNumber = chosen_row,
                  !.isFlipped = TRUE,
                  !.isInDrawPile = FALSE,
                  !.isInBullHeadStack = FALSE]]

\* a variant of place_card that collects the row only above five cards
PlaceCardAboveFive(st, taker, card_index, chosen_row, took_row) ==
    IF took_row THEN PutCard(take_row(st, taker, chosen_row), card_index, chosen_row)
    ELSE IF count_cards_in_row(st.cards, chosen_row) > 5
         THEN PutCard(take_row(st, taker, chosen_row), card_index, chosen_row)
    ELSE PutCard(st, card_index, chosen_row)

\* place_card: a forced take of chosen_row, or a normal placement that
\* collects the row when it already holds 5 cards or more (that branch
\* repeats the loop of take_row in line)
place_card(st, taker, card_index, chosen_row, took_row) ==
    IF took_row THEN PutCard(take_row(st, taker, chosen_row), card_index, chosen_row)
    ELSE IF count_cards_in_row(st.cards, chosen_row) >= 5
         THEN PutCard(take_row(st, taker, chosen_row), card_index, chosen_row)
    ELSE PutCard(st, card_index, chosen_row)

\* penalties.sort(key=lambda x: x[0]): the rows 1..4 by ascending bullhead sum
PenaltyRows(cards) ==
    SortedBy(<<1, 2, 3, 4>>, [r \in 1..4 |-> SumBullheads1(cards, ActiveRow(cards, r))])

\* a variant of MovesOfCard that offers only the rows holding cards for a take
MovesOfOccupiedRows(cards, idx, row_choice) ==
    IF row_choice # 0 THEN <<<<idx, row_choice, FALSE>>>>
    ELSE SelectSeq([j \in 1..4 |-> <<idx, PenaltyRows(cards)[j], TRUE>>],
                   LAMBDA m : ActiveRow(cards, m[2]) # <<>>)

\* the moves generate_moves_for_player appends for one hand card
MovesOfCard(cards, idx, row_choice) ==
    IF row_choice # 0 THEN <<<<idx, row_choice, FALSE>>>>
    ELSE [j \in 1..4 |-> <<idx, PenaltyRows(cards)[j], TRUE>>]

\* the list of moves (card_index, chosen_row, took_row_flag) of a side
generate_moves_for_player(cards, player) ==
    LET hand_indices == IF player THEN get_player_hand_indices(cards)
                                  ELSE get_ai_hand_indices(cards)
        F[n \in 0..Len(hand_indices)] ==
            IF n = 0 THEN <<>>
            ELSE F[n - 1] \o MovesOfCard(cards, hand_indices[n],
                                 deterministic_row_for_card(cards,
                                     cards[hand_indices[n]].cardNumber))
    IN F[Len(hand_indices)]

----------------------------------------------------------------------------
(* Transposition key of minimax_1.py, lines 265-275.                       *)

\* (cardNumber, rowNumber, isInBullHeadStack) of one card
CardSig(c) == <<c.cardNumber, c.rowNumber, c.isInBullHeadStack>>

\* a variant of state_hash that keeps the cards in list order
HashInListOrder(st) ==
    <<[n \in DOMAIN st.cards |-> CardSig(st.cards[n])], st.playerScore, st.aiScore>>

\* sorted(state.cards, key=(cardNumber, rowNumber)): rowNumber is 0..5, so
\* the pair is compared as 10 * cardNumber + rowNumber
state_hash(st) ==
    <<SortedBy([n \in DOMAIN st.cards |-> CardSig(st.cards[n])],
               [n \in DOMAIN st.cards |-> 10 * st.cards[n].cardNumber + st.cards[n].rowNumber]),
      st.playerScore, st.aiScore>>

----------------------------------------------------------------------------
(* The search of minimax_1.py, lines 237-402.  Values are in hundredths:   *)
(* the tie-breaker of the evaluation counts 0.01 per card.                 *)

\* -base + tie_breaker, times 100
evaluate_state_for_ai(st) ==
    100 * (st.playerScore - st.aiScore)
    + (Len(get_player_hand_indices(st.cards)) - Len(get_ai_hand_indices(st.cards)))

\* move_score of the maximizing ply
move_score(cards, m) ==
    IF m[3] THEN -SumBullheads1(cards, ActiveRow(cards, m[2]))
    ELSE IF get_last_card_of_row(cards, m[2]) = 0 THEN 0
    ELSE -(cards[m[1]].cardNumber - cards[get_last_card_of_row(cards, m[2])].cardNumber)

\* moves.sort(key=move_score) of the maximizing ply.  The other ply sorts by
\* pmove_score = -move_score with reverse=True, which keeps equal keys in
\* list order: the same list
SortedMoves(cards, moves) ==
    SortedBy(moves, [n \in DOMAIN moves |-> move_score(cards, moves[n])])

\* key = (state_hash(state), depth, maximizing_player)
CacheKey(st, depth, maximizing_player) == <<state_hash(st), depth, maximizing_player>>

\* cache[key] = (best_value, best_move); return cache[key]
Stored(cache, key, best_value, best_move) ==
    [value |-> best_value, move |-> best_move,
     cache |-> [k \in DOMAIN cache \cup {key} |->
                  IF k = key THEN [value |-> best_value, move |-> best_move]
                  ELSE cache[k]]]

\* [value, move, cache]: the value, the move (<<>> for None) and the cache
\* as the call leaves it
RECURSIVE minimax(_, _, _, _, _, _)
RECURSIVE MaxMoves(_, _, _, _, _, _, _, _, _, _)
RECURSIVE MaxNext(_, _, _, _, _, _, _, _, _, _)
RECURSIVE MinMoves(_, _, _, _, _, _, _, _, _, _)
RECURSIVE MinNext(_, _, _, _, _, _, _, _, _, _)

\* `for move in moves` of the maximizing ply from position n on
MaxMoves(st, depth, alpha, beta, moves, n, best_value, best_move, cache, key) ==
    IF n > Len(moves) THEN Stored(cache, key, best_value, best_move)
    ELSE MaxNext(st, depth, alpha, beta, moves, n, best_value, best_move, key,
                 minimax(place_card(st, FALSE, moves[n][1], moves[n][2], moves[n][3]),
                         depth - 1, alpha, beta, FALSE, cache))

\* the rest of one pass once the call on child has returned r
MaxNext(st, depth, alpha, beta, moves, n, best_value, best_move, key, r) ==
    IF beta <= Max(alpha, Max(best_value, r.value))
    THEN Stored(r.cache, key, Max(best_value, r.value),
                IF r.value > best_value THEN moves[n] ELSE best_move)
    ELSE MaxMoves(st, depth, Max(alpha, Max(best_value, r.value)), beta, moves, n + 1,
                  Max(best_value, r.value),
                  IF r.value > best_value THEN moves[n] ELSE best_move,
                  r.cache, key)

\* `for move in moves` of the minimizing ply from position n on
MinMoves(st, depth, alpha, beta, moves, n, best_value, best_move, cache, key) ==
    IF n > Len(moves) THEN Stored(cache, key, best_value, best_move)
    ELSE MinNext(st, depth, alpha, beta, moves, n, best_value, best_move, key,
                 minimax(place_card(st, TRUE, moves[n][1], moves[n][2], moves[n][3]),
                         depth - 1, alpha, beta, TRUE, cache))

MinNext(st, depth, alpha, beta, moves, n, best_value, best_move, key, r) ==
    IF Min(beta, Min(best_value, r.value)) <= alpha
    THEN Stored(r.cache, key, Min(best_value, r.value),
                IF r.value < best_value THEN moves[n] ELSE best_move)
    ELSE MinMoves(st, depth, alpha, Min(beta, Min(best_value, r.value)), moves, n + 1,
                  Min(best_value, r.value),
                  IF r.value < best_value THEN moves[n] ELSE best_move,
                  r.cache, key)

minimax(st, depth, alpha, beta, maximizing_player, cache) ==
    IF depth = 0
    THEN [value |-> evaluate_state_for_ai(st), move |-> <<>>, cache |-> cache]
    ELSE IF get_ai_hand_indices(st.cards) = <<>> /\ get_player_hand_indices(st.cards) = <<>>
    THEN [value |-> evaluate_state_for_ai(st), move |-> <<>>, cache |-> cache]
    ELSE IF CacheKey(st, depth, maximizing_player) \in DOMAIN cache
    THEN [value |-> cache[CacheKey(st, depth, maximizing_player)].value,
          move |-> cache[CacheKey(st, depth, maximizing_player)].move,
          cache |-> cache]
    ELSE IF maximizing_player
    THEN MaxMoves(st, depth, alpha, beta,
                  SortedMoves(st.cards, generate_moves_for_player(st.cards, FALSE)),
                  1, -INF, <<>>, cache, CacheKey(st, depth, maximizing_player))
    ELSE MinMoves(st, depth, alpha, beta,
                  SortedMoves(st.cards, generate_moves_for_player(st.cards, TRUE)),
                  1, INF, <<>>, cache, CacheKey(st, depth, maximizing_player))

----------------------------------------------------------------------------
(* The state machine.                                                      *)

\* no search in progress
NoSearch ==
    [pc |-> "idle", heap |-> <<>>, nodes |-> <<>>, node |-> 0, sim |-> 0,
     reward |-> <<0, 1>>, iter |-> 0, result |-> 0, frames |-> <<>>]

Op(op, pre, card, side, ai, player, outcome) ==
    [op |-> op, pre |-> pre, card |-> card, side |-> side,
     ai |-> ai, player |-> player, outcome |-> outcome]

\* The caller's first boards: every layout with both hands dealt; the
\* standard start is also sent with hasEnded already set.
Init ==
    /\ \E layout \in Layouts, ai \in Hands(AiPool), player \in Hands(PlayerPool),
          ended \in BOOLEAN :
          /\ ended => layout = StandardStart
          /\ state = StartBoard(layout, ai, player, ended)
    /\ program \in {"MCTS", "minimax2", "minimax_1"}
    /\ state.hasEnded => program # "minimax_1"
    /\ last = Op("init", state, 0, FALSE, 0, 0, "")
    /\ search = NoSearch

\* The boards the caller may send: the board it holds, or that board with one
\* card of the opposing hand marked as its move when none is marked yet.
Requests(st) ==
    {st} \cup
    IF SelectedCards(st.cards) # <<>> THEN {}
    ELSE {[st EXCEPT !.cards[k].isSelect = TRUE] : k \in SeqRange(player_hand(st.cards))}

\* one call of resolve_card_placement on a hand card
ResolveCardPlacement ==
    /\ program \in {"MCTS", "minimax2"}
    /\ \E is_player \in BOOLEAN :
         \E k \in SeqRange(IF is_player THEN player_hand(state.cards)
                                        ELSE ai_hand(state.cards)) :
            /\ state' = resolve_card_placement(state, k, is_player)
            /\ last' = Op("resolve", state, k, is_player, 0, 0, "")
    /\ UNCHANGED <<program, search>>

\* one call of play_one_turn on a pair of hand cards (expand, simulate_rollout)
PlayOneTurn ==
    /\ program = "MCTS"
    /\ \E a \in Faces(state.cards, ai_hand(state.cards)),
          p \in Faces(state.cards, player_hand(state.cards)) :
            /\ state' = play_one_turn(state, a, p)
            /\ last' = Op("turn", state, 0, FALSE, a, p, "")
    /\ UNCHANGED <<program, search>>

\* POST / of MCTS.py
ProcessRequest ==
    /\ program = "MCTS"
    /\ \E input \in Requests(state) :
         \E r \in process_request(input) :
            /\ state' = r.board
            /\ last' = Op("request", input, 0, FALSE, r.ai, r.player, r.outcome)
    /\ UNCHANGED <<program, search>>

\* one call of simulate_turn on a pair of hand cards (a node of the search)
SimulateTurn ==
    /\ program = "minimax2"
    /\ \E a \in SeqRange(ai_hand(state.cards)),
          p \in SeqRange(player_hand(state.cards)) :
            /\ state' = simulate_turn(state, a, p)
            /\ last' = Op("turn", state, 0, FALSE,
                          state.cards[a].cardNumber, state.cards[p].cardNumber, "")
    /\ UNCHANGED <<program, search>>

\* POST / of minimax2.py
ProcessRequestMinimax2 ==
    /\ program = "minimax2"
    /\ \E input \in Requests(state) :
         \E r \in process_request_minimax2(input) :
            /\ state' = r.board
            /\ last' = Op("request", input, 0, FALSE, r.ai, r.player, r.outcome)
    /\ UNCHANGED <<program, search>>

\* The side of the next ply of minimax (minimax_1.py): the root is the
\* automated side's, then the sides alternate.
NextTaker == IF last.op = "place" THEN ~last.side ELSE FALSE

\* one ply of minimax (minimax_1.py): a generated move applied by place_card
PlaceCard ==
    /\ program = "minimax_1"
    /\ \E m \in SeqRange(generate_moves_for_player(state.cards, NextTaker)) :
          /\ state' = place_card(state, NextTaker, m[1], m[2], m[3])
          /\ last' = Op("place", state, m[1], NextTaker, 0, 0,
                        IF m[3] THEN "took" ELSE "placed")
    /\ UNCHANGED <<program, search>>

Next ==
    \/ ResolveCardPlacement
    \/ PlayOneTurn
    \/ ProcessRequest
    \/ SimulateTurn
    \/ ProcessRequestMinimax2
    \/ PlaceCard

Spec == Init /\ [][Next]_vars

----------------------------------------------------------------------------
(* calculate_final_turn called on any board the front end can send: the    *)
(* mark may lie on any card of row 5, also on a card of the penalty stack. *)

\* the values of the strategy selector aiAlgo a board may carry
Selectors == {0, 1}

FinalTurnInputs(st) ==
    {[st EXCEPT !.aiAlgo = algo] : algo \in Selectors} \cup
    IF SelectedCards(st.cards) # <<>> THEN {}
    ELSE {[st EXCEPT !.cards[k].isSelect = TRUE, !.aiAlgo = algo] :
             k \in SeqRange(AnyRowFiveCard(st.cards)), algo \in Selectors}

\* one call of calculate_final_turn of MCTS.py or of minimax2.py
CalculateFinalTurn ==
    /\ program \in {"MCTS", "minimax2"}
    /\ \E input \in FinalTurnInputs(state) :
         \E r \in IF program = "MCTS" THEN calculate_final_turn(input)
                                      ELSE calculate_final_turn_minimax2(input) :
            /\ state' = r.board
            /\ last' = Op("final_turn", input, 0, FALSE, r.ai, r.player, r.outcome)
    /\ UNCHANGED <<program, search>>

SpecCore == Init /\ [][CalculateFinalTurn \/ Next]_vars

----------------------------------------------------------------------------
(* The boards of one search of minimax_1.py, for the transposition key:    *)
(* the caller sends the cards in any list order, then the plies follow.    *)

HashLayouts == {StandardStart, <<<<3>>, <<17>>, <<42>>, <<>>>>}

InitHash ==
    /\ \E layout \in HashLayouts, ai \in Hands(AiPool), player \in Hands(PlayerPool) :
          state = StartBoard(layout, ai, player, FALSE)
    /\ program = "minimax_1"
    /\ last = Op("init", state, 0, FALSE, 0, 0, "")
    /\ search = NoSearch

\* the list with the cards at positions i and j exchanged
Exchanged(cards, i, j) ==
    [n \in DOMAIN cards |-> IF n = i THEN cards[j] ELSE IF n = j THEN cards[i] ELSE cards[n]]

\* the same cards arrive in another list order: two neighbours exchanged
Reorder ==
    /\ last.op = "init"
    /\ \E i \in DOMAIN state.cards :
          /\ i < Len(state.cards)
          /\ state' = [state EXCEPT !.cards = Exchanged(state.cards, i, i + 1)]
          /\ last' = Op("reorder", state, i, FALSE, 0, 0, "")
    /\ UNCHANGED <<program, search>>

NextHash ==
    \/ Reorder
    \/ PlaceCard

SpecHash == InitHash /\ [][NextHash]_vars

----------------------------------------------------------------------------
(* The tree search of MCTS.py, lines 152-268, step by step.  Boards are    *)
(* objects: search.heap lists them, a node holds the position of its board *)
(* in the heap, and resolve_card_placement writes into the object it is    *)
(* given.  heap[1] is the board of the caller.                             *)

Iterations == 4

\* a variant of model_copy that hands back the object itself
SameObject(heap, ref) == [heap |-> heap, ref |-> ref]

\* state.model_copy(deep=True): a new object with the same content
model_copy(heap, ref) == [heap |-> Append(heap, heap[ref]), ref |-> Len(heap) + 1]

\* MCTSNode.get_legal_moves, as the list of the faces
get_legal_moves(board) ==
    [n \in DOMAIN ai_hand(board.cards) |-> board.cards[ai_hand(board.cards)[n]].cardNumber]

\* MCTSNode.__init__; born records the content of the board at that moment
MCTSNode(ref, parent, move, board) ==
    [state |-> ref, parent |-> parent, move |-> move, children |-> <<>>,
     visits |-> 0, reward |-> <<0, 1>>,
     untried_moves |-> get_legal_moves(board), born |-> board]

\* the rollout rewards are fractions <<numerator, denominator>>
RECURSIVE GCD(_, _)
GCD(a, b) == IF b = 0 THEN a ELSE GCD(b, a % b)

\* self.reward += result_reward, in lowest terms
AddReward(x, y) ==
    <<(x[1] * y[2] + y[1] * x[2]) \div GCD(x[1] * y[2] + y[1] * x[2], x[2] * y[2]),
      (x[2] * y[2]) \div GCD(x[1] * y[2] + y[1] * x[2], x[2] * y[2])>>

is_fully_expanded(n) == n.untried_moves = <<>>

\* the condition of the selection loop of find_best_move_mcts
Descends(s) ==
    /\ is_fully_expanded(s.nodes[s.node])
    /\ ~s.heap[s.nodes[s.node].state].hasEnded
    /\ s.nodes[s.node].children # <<>>

\* the boards find_best_move_mcts is called on: dealt boards, boards whose
\* automated hand or whose opposing hand is already played, ended boards
SearchLayouts == {StandardStart, <<<<>>, <<>>, <<>>, <<>>>>}

SearchBoards ==
    {StartBoard(layout, ai, player, FALSE) :
        layout \in SearchLayouts, ai \in Hands(AiPool), player \in Hands(PlayerPool)}
    \cup {StartBoard(StandardStart, <<>>, <<5, 21>>, FALSE),
          StartBoard(StandardStart, <<2, 20>>, <<>>, FALSE),
          StartBoard(StandardStart, <<2, 20>>, <<5, 21>>, TRUE)}

\* root = MCTSNode(state=initial_state): the root holds the caller's object
StartSearch(board) ==
    [pc |-> "select", heap |-> <<board>>, nodes |-> <<MCTSNode(1, 0, 0, board)>>,
     node |-> 1, sim |-> 0, reward |-> <<0, 1>>, iter |-> 0, result |-> 0,
     frames |-> <<>>]

\* the bound on the calls one recursive search makes in a run of the model
MaxBranches == 2

\* one call of minimax_alpha_beta or of minimax: the board object it is
\* given, the call it comes from, and the content of the board at the call
Frame(ref, parent, board) == [state |-> ref, parent |-> parent, born |-> board]

\* the first call of a recursive search, on the object cp.ref
StartBranching(cp) ==
    [NoSearch EXCEPT !.pc = "branch", !.heap = cp.heap,
                     !.frames = <<Frame(cp.ref, 0, cp.heap[cp.ref])>>]

\* find_best_move_mcts and minimax_alpha_beta are called on the caller's
\* object; find_best_ai_move builds a GameState, a deep copy of the cards,
\* and returns None (result 0) at once when it holds no automated card
InitSearch ==
    /\ \E board \in SearchBoards :
          \E input \in Requests(board) : state = input
    /\ program \in {"MCTS", "minimax2", "minimax_1"}
    /\ last = Op("init", state, 0, FALSE, 0, 0, "")
    /\ search = IF program = "MCTS" THEN StartSearch(state)
                ELSE IF program = "minimax2" THEN StartBranching(SameObject(<<state>>, 1))
                ELSE IF get_ai_hand_indices(state.cards) = <<>>
                THEN [NoSearch EXCEPT !.pc = "done", !.heap = model_copy(<<state>>, 1).heap]
                ELSE StartBranching(model_copy(<<state>>, 1))

\* node = node.select_best_child(): the child of best UCB1 score; the score
\* depends on the random rollouts, so any child
SelectChild ==
    /\ search.pc = "select"
    /\ Descends(search)
    /\ \E c \in SeqRange(search.nodes[search.node].children) :
          search' = [search EXCEPT !.node = c]
    /\ last' = Op("select", search, 0, FALSE, 0, 0, "")
    /\ UNCHANGED <<state, program>>

\* a variant of Expanded that leaves the move in untried_moves
ExpandedWithoutPop(s, ai_move_card, p, cp) ==
    [s EXCEPT
        !.heap = [cp.heap EXCEPT ![cp.ref] = play_one_turn(@, ai_move_card, p)],
        !.nodes = Append(
            [s.nodes EXCEPT ![s.node].children = Append(@, Len(s.nodes) + 1)],
            MCTSNode(cp.ref, s.node, ai_move_card,
                     play_one_turn(cp.heap[cp.ref], ai_move_card, p))),
        !.node = Len(s.nodes) + 1,
        !.pc = "simulate"]

\* expand() with a card p of the opposing hand: the child on a copy
Expanded(s, ai_move_card, p, cp) ==
    [s EXCEPT
        !.heap = [cp.heap EXCEPT ![cp.ref] = play_one_turn(@, ai_move_card, p)],
        !.nodes = Append(
            [s.nodes EXCEPT
                ![s.node].untried_moves = SubSeq(@, 1, Len(@) - 1),
                ![s.node].children = Append(@, Len(s.nodes) + 1)],
            MCTSNode(cp.ref, s.node, ai_move_card,
                     play_one_turn(cp.heap[cp.ref], ai_move_card, p))),
        !.node = Len(s.nodes) + 1,
        !.pc = "simulate"]

\* expand() when the opposing hand is empty: the move is popped, return self
NotExpanded(s) ==
    [s EXCEPT !.nodes[s.node].untried_moves = SubSeq(@, 1, Len(@) - 1),
              !.pc = "simulate"]

\* 2. Expansion
Expand ==
    /\ search.pc = "select"
    /\ ~Descends(search)
    /\ IF is_fully_expanded(search.nodes[search.node])
          \/ search.heap[search.nodes[search.node].state].hasEnded
       THEN search' = [search EXCEPT !.pc = "simulate"]
       ELSE IF player_hand(search.heap[search.nodes[search.node].state].cards) = <<>>
       THEN search' = NotExpanded(search)
       ELSE \E p \in Faces(search.heap[search.nodes[search.node].state].cards,
                           player_hand(search.heap[search.nodes[search.node].state].cards)) :
               search' = Expanded(search,
                            search.nodes[search.node].untried_moves[
                                Len(search.nodes[search.node].untried_moves)],
                            p, model_copy(search.heap, search.nodes[search.node].state))
    /\ last' = Op("expand", search, 0, FALSE, 0, 0, "")
    /\ UNCHANGED <<state, program>>

\* simulate_rollout: current_sim_state = self.state.model_copy(deep=True)
BeginRollout(s, cp) == [s EXCEPT !.heap = cp.heap, !.sim = cp.ref, !.pc = "rollout"]

StartRollout ==
    /\ search.pc = "simulate"
    /\ search' = BeginRollout(search, model_copy(search.heap, search.nodes[search.node].state))
    /\ last' = Op("simulate", search, 0, FALSE, 0, 0, "")
    /\ UNCHANGED <<state, program>>

\* a variant of RolloutOver that waits for both hands to be empty
BothHandsEmpty(board) ==
    ai_hand(board.cards) = <<>> /\ player_hand(board.cards) = <<>>

\* if not ai_hand or not player_hand: break
RolloutOver(board) ==
    ai_hand(board.cards) = <<>> \/ player_hand(board.cards) = <<>>

\* one pass of the loop of simulate_rollout: a random card of each hand
RolloutStep ==
    /\ search.pc = "rollout"
    /\ ~RolloutOver(search.heap[search.sim])
    /\ \E a \in Faces(search.heap[search.sim].cards, ai_hand(search.heap[search.sim].cards)),
          p \in Faces(search.heap[search.sim].cards, player_hand(search.heap[search.sim].cards)) :
            /\ search' = [search EXCEPT !.heap[search.sim] = play_one_turn(@, a, p)]
            /\ last' = Op("round", search, 0, FALSE, a, p, "")
    /\ UNCHANGED <<state, program>>

\* the loop breaks: return 1.0 / (1.0 + final_ai_score)
EndRollout ==
    /\ search.pc = "rollout"
    /\ RolloutOver(search.heap[search.sim])
    /\ search' = [search EXCEPT !.reward = <<1, 1 + search.heap[search.sim].aiScore>>,
                                !.pc = "backprop"]
    /\ last' = Op("reward", search, 0, FALSE, 0, 0, "")
    /\ UNCHANGED <<state, program>>

\* the node n and its ancestors up to the root
RECURSIVE Ancestors(_, _)
Ancestors(nodes, n) == IF n = 0 THEN {} ELSE {n} \cup Ancestors(nodes, nodes[n].parent)

\* a variant of backpropagate that stops at the node it is called on
OnlyTheNode(nodes, n, result_reward) ==
    [nodes EXCEPT ![n].visits = @ + 1, ![n].reward = AddReward(@, result_reward)]

\* backpropagate: visits and reward of the node and of each of its ancestors
backpropagate(nodes, n, result_reward) ==
    [k \in DOMAIN nodes |->
        IF k \in Ancestors(nodes, n)
        THEN [nodes[k] EXCEPT !.visits = @ + 1, !.reward = AddReward(@, result_reward)]
        ELSE nodes[k]]

\* the objects still held by a node (the copy of a finished rollout is not)
Held(heap, nodes) ==
    SubSeq(heap, 1, CHOOSE m \in {nodes[k].state : k \in DOMAIN nodes} :
                        \A k \in DOMAIN nodes : nodes[k].state <= m)

\* 4. Backpropagation, and the end of one iteration
Backpropagate ==
    /\ search.pc = "backprop"
    /\ search' = [search EXCEPT
                    !.nodes = backpropagate(search.nodes, search.node, search.reward),
                    !.heap = Held(search.heap, search.nodes),
                    !.sim = 0,
                    !.node = 1,
                    !.iter = @ + 1,
                    !.pc = IF search.iter + 1 = Iterations THEN "choose" ELSE "select"]
    /\ last' = Op("backprop", search, 0, FALSE, 0, 0, "")
    /\ UNCHANGED <<state, program>>

\* a variant of MostVisited: the first child of highest mean reward
HighestMeanReward(nodes, children) ==
    children[CHOOSE i \in DOMAIN children :
                \A j \in DOMAIN children :
                    \/ nodes[children[j]].reward[1] * nodes[children[i]].reward[2] * nodes[children[i]].visits
                         < nodes[children[i]].reward[1] * nodes[children[j]].reward[2] * nodes[children[j]].visits
                    \/ /\ nodes[children[j]].reward[1] * nodes[children[i]].reward[2] * nodes[children[i]].visits
                            = nodes[children[i]].reward[1] * nodes[children[j]].reward[2] * nodes[children[j]].visits
                       /\ j >= i]

\* max(root.children, key=lambda c: c.visits): the first child of most visits
MostVisited(nodes, children) ==
    children[CHOOSE i \in DOMAIN children :
                \A j \in DOMAIN children :
                    \/ nodes[children[j]].visits < nodes[children[i]].visits
                    \/ nodes[children[j]].visits = nodes[children[i]].visits /\ j >= i]

\* best_child = max(root.children, key=lambda c: c.visits); its parent_move
BestMove(nodes) == nodes[MostVisited(nodes, nodes[1].children)].move

\* the end of find_best_move_mcts: the move of the best child, or the
\* ValueError that max() raises on an empty list of children
Choose ==
    /\ search.pc = "choose"
    /\ search' = IF search.nodes[1].children = <<>>
                 THEN [search EXCEPT !.pc = "raised"]
                 ELSE [search EXCEPT !.result = BestMove(search.nodes), !.pc = "done"]
    /\ last' = Op("choose", search, 0, FALSE, 0, 0, "")
    /\ UNCHANGED <<state, program>>

\* a call one level down, on the object cp.ref after the move gave board
Branched(s, k, cp, board) ==
    [s EXCEPT !.heap = [cp.heap EXCEPT ![cp.ref] = board],
              !.frames = Append(@, Frame(cp.ref, k, board))]

\* next_state = simulate_turn(state, ...) in a call of minimax_alpha_beta,
\* then the call on next_state; whichever the ply, a card of each hand
BranchSimulateTurn ==
    /\ program = "minimax2"
    /\ search.pc = "branch"
    /\ Len(search.frames) <= MaxBranches
    /\ \E k \in DOMAIN search.frames :
          \E a \in SeqRange(ai_hand(search.heap[search.frames[k].state].cards)),
             p \in SeqRange(player_hand(search.heap[search.frames[k].state].cards)) :
               search' = Branched(search, k,
                            model_copy(search.heap, search.frames[k].state),
                            simulate_turn(search.heap[search.frames[k].state], a, p))
    /\ last' = Op("branch", search, 0, FALSE, 0, 0, "")
    /\ UNCHANGED <<state, program>>

\* child = state.clone(); child.place_card(...) in a call of minimax, then
\* the call on child; whichever the ply, a generated move of either side
BranchClone ==
    /\ program = "minimax_1"
    /\ search.pc = "branch"
    /\ Len(search.frames) <= MaxBranches
    /\ \E k \in DOMAIN search.frames, taker \in BOOLEAN :
          \E m \in SeqRange(generate_moves_for_player(
                               search.heap[search.frames[k].state].cards, taker)) :
               search' = Branched(search, k,
                            model_copy(search.heap, search.frames[k].state),
                            place_card(search.heap[search.frames[k].state],
                                       taker, m[1], m[2], m[3]))
    /\ last' = Op("clone", search, 0, FALSE, 0, 0, "")
    /\ UNCHANGED <<state, program>>

\* steps 3 and 4 of calculate_final_turn on new_state, the object cp.ref
Returned(prog, cp, ai_num, player_num) ==
    [cp.heap EXCEPT ![cp.ref] =
        IF prog = "MCTS" THEN FinalTurn(cp.heap[cp.ref], ai_num, player_num).board
        ELSE FinalTurnMinimax2(cp.heap[cp.ref], ai_num, player_num).board]

\* calculate_final_turn around the search: new_state is a deep copy of the
\* caller's board, and the round of the chosen card and of the marked card
\* is resolved on new_state
ResolveTurn ==
    /\ program \in {"MCTS", "minimax2"}
    /\ search.pc = IF program = "MCTS" THEN "done" ELSE "branch"
    /\ SelectedCards(search.heap[1].cards) # <<>>
    /\ ai_hand(search.heap[1].cards) # <<>>
    /\ \E a \in Faces(search.heap[1].cards, ai_hand(search.heap[1].cards)) :
          /\ program = "MCTS" => a = search.result
          /\ search' = [search EXCEPT
                          !.heap = Returned(program, model_copy(search.heap, 1), a,
                                      search.heap[1].cards[SelectedCards(search.heap[1].cards)[1]].cardNumber),
                          !.pc = "returned"]
    /\ last' = Op("return", search, 0, FALSE, 0, 0, "")
    /\ UNCHANGED <<state, program>>

NextSearch ==
    \/ BranchSimulateTurn
    \/ BranchClone
    \/ ResolveTurn
    \/ SelectChild
    \/ Expand
    \/ StartRollout
    \/ RolloutStep
    \/ EndRollout
    \/ Backpropagate
    \/ Choose

SpecSearch == InitSearch /\ [][NextSearch]_vars

----------------------------------------------------------------------------
(* The evaluation and the two recursive searches called on the boards of   *)
(* a game, at every depth up to SEARCH_DEPTH and for either side.  A call  *)
(* leaves the board as it is: the game goes on from the board, and last    *)
(* holds the call until then.                                              *)

\* the record of one call: its arguments and the pair r it returned
Call(op, pre, depth, side, r) ==
    [op |-> op, pre |-> pre, depth |-> depth, side |-> side,
     value |-> r.value, move |-> r.move]

\* one call of evaluate_board (minimax2.py)
EvaluateBoard ==
    /\ program = "minimax2"
    /\ last.op \notin {"evaluate", "search"}
    /\ last' = Call("evaluate", state, 0, FALSE, Leaf(state))
    /\ UNCHANGED <<state, program, search>>

\* one call of minimax_alpha_beta (minimax2.py) with the full window
CallMinimaxAlphaBeta ==
    /\ program = "minimax2"
    /\ last.op \notin {"evaluate", "search"}
    /\ \E depth \in 0..SEARCH_DEPTH, is_maximizing_player \in BOOLEAN :
          last' = Call("search", state, depth, is_maximizing_player,
                       minimax_alpha_beta(state, depth, -INF, INF, is_maximizing_player))
    /\ UNCHANGED <<state, program, search>>

\* one call of minimax (minimax_1.py) with the full window and a new cache
CallMinimax ==
    /\ program = "minimax_1"
    /\ last.op \notin {"evaluate", "search"}
    /\ \E depth \in 0..SEARCH_DEPTH, maximizing_player \in BOOLEAN :
          last' = Call("search", state, depth, maximizing_player,
                       minimax(state, depth, -INF, INF, maximizing_player, <<>>))
    /\ UNCHANGED <<state, program, search>>

SpecEval ==
    Init /\ [][\/ EvaluateBoard
               \/ CallMinimaxAlphaBeta
               \/ CallMinimax
               \/ (last.op \notin {"evaluate", "search"} /\ Next)]_vars

----------------------------------------------------------------------------
(* minimax_alpha_beta on boards whose hands are dealt in any order: the     *)
(* caller lists the cards of a hand as they were drawn, not by face.       *)

\* the cards of the pool in every order
Orders(pool) ==
    {h \in [1..Cardinality(pool) -> pool] : \A i, j \in DOMAIN h : h[i] = h[j] => i = j}

InitPredictable ==
    /\ \E layout \in Layouts, ai \in Orders(AiPool), player \in Orders(PlayerPool) :
          state = StartBoard(layout, ai, player, FALSE)
    /\ program = "minimax2"
    /\ last = Op("init", state, 0, FALSE, 0, 0, "")
    /\ search = NoSearch

\* the search called on each of these boards, at every depth and for either
\* side; the boards of the later rounds are those the recursion reaches
SpecPredictable == InitPredictable /\ [][CallMinimaxAlphaBeta]_vars

----------------------------------------------------------------------------
(* The four valuators of a card, each applied to every face value.         *)

MaxFace == 104

\* a variant of getBullHeads that tests the multiples of 5 before those of 10
FiveBeforeTen(card) ==
    IF card.cardNumber = 55 THEN 7
    ELSE IF card.cardNumber % 5 = 0 THEN 2
    ELSE IF card.cardNumber % 10 = 0 THEN 3
    ELSE IF card.cardNumber % 11 = 0 THEN 5
    ELSE 1

\* getBullHeads of main.py
getBullHeads(card) ==
    IF card.cardNumber = 55 THEN 7
    ELSE IF card.cardNumber % 10 = 0 THEN 3
    ELSE IF card.cardNumber % 11 = 0 THEN 5
    ELSE IF card.cardNumber % 5 = 0 THEN 2
    ELSE 1

InitValuator ==
    /\ \E n \in 1..MaxFace : state = StartBoard(<<<<n>>, <<>>, <<>>, <<>>>>, <<>>, <<>>, FALSE)
    /\ program \in {"MCTS", "minimax2", "minimax_1", "main"}
    /\ last = Op("init", state, 0, FALSE, 0, 0, "")
    /\ search = NoSearch

\* one call of the valuator of the program on the card of the board
Valuate ==
    /\ search.pc = "idle"
    /\ search' = [NoSearch EXCEPT
                    !.pc = "done",
                    !.result = IF program \in {"MCTS", "minimax2"} THEN get_bull_heads(state.cards[1])
                               ELSE IF program = "minimax_1" THEN get_bullheads(state.cards[1])
                               ELSE getBullHeads(state.cards[1])]
    /\ last' = Op("valuate", state, 1, FALSE, 0, 0, "")
    /\ UNCHANGED <<state, program>>

SpecValuator == InitValuator /\ [][Valuate]_vars

----------------------------------------------------------------------------
(* The greedy opponent of main.py, lines 145-286.  get_last_card_of_row    *)
(* and count_cards_in_row of main.py are those of minimax_1.py.            *)

\* Step 1, one pass of `for i, row in enumerate(rows, start=1)` on the
\* running [closest_diff, chosen_row]
ClosestRowStep(cards, card, acc, i, last_card) ==
    IF last_card = 0 THEN acc
    ELSE IF cards[last_card].cardNumber < cards[card].cardNumber
            /\ cards[card].cardNumber - cards[last_card].cardNumber < acc.closest_diff
         THEN [closest_diff |-> cards[card].cardNumber - cards[last_card].cardNumber,
               chosen_row |-> i]
         ELSE acc

\* Step 1: the row whose last card is the closest below the card, 0 for None
ClosestRow(cards, card) ==
    LET F[i \in 0..4] ==
            IF i = 0 THEN [closest_diff |-> INF, chosen_row |-> 0]
            ELSE ClosestRowStep(cards, card, F[i - 1], i, get_last_card_of_row(cards, i))
    IN F[4].chosen_row

\* Step 2: [min_bullheads, chosen_row] after the loop, the first row of
\* least bull_sum (an empty row sums to 0)
LeastBullheads(cards) ==
    LET bull_sum == [i \in 1..4 |->
                        SumSeq([n \in DOMAIN ActiveRow(cards, i) |->
                                   getBullHeads(cards[ActiveRow(cards, i)[n]])])]
        F[i \in 0..4] ==
            IF i = 0 THEN [min_bullheads |-> INF, chosen_row |-> 0]
            ELSE IF bull_sum[i] < F[i - 1].min_bullheads
                 THEN [min_bullheads |-> bull_sum[i], chosen_row |-> i]
                 ELSE F[i - 1]
    IN F[4]

\* Steps 1 to 3 over aiHand: [best_card, best_row, min_penalty], the first
\* card of least penalty (0 for a safe placement)
BestCard(cards) ==
    LET aiHand == ai_hand(cards)
        F[n \in 0..Len(aiHand)] ==
            IF n = 0 THEN [best_card |-> 0, best_row |-> 0, min_penalty |-> INF]
            ELSE IF ClosestRow(cards, aiHand[n]) # 0
                 THEN IF 0 < F[n - 1].min_penalty
                      THEN [best_card |-> aiHand[n],
                            best_row |-> ClosestRow(cards, aiHand[n]),
                            min_penalty |-> 0]
                      ELSE F[n - 1]
                 ELSE IF LeastBullheads(cards).min_bullheads < F[n - 1].min_penalty
                      THEN [best_card |-> aiHand[n],
                            best_row |-> LeastBullheads(cards).chosen_row,
                            min_penalty |-> LeastBullheads(cards).min_bullheads]
                      ELSE F[n - 1]
    IN F[Len(aiHand)]

\* the loop that collects every active card of the row for the automated side
CollectRow(st, row) ==
    [st EXCEPT
        !.cards = [i \in DOMAIN st.cards |->
                     IF st.cards[i].rowNumber = row /\ ~st.cards[i].isInBullHeadStack
                     THEN [st.cards[i] EXCEPT !.rowNumber = 0,
                                              !.isFlipped = TRUE,
                                              !.isInBullHeadStack = TRUE]
                     ELSE st.cards[i]],
        !.aiScore = @ + SumSeq([n \in DOMAIN ActiveRow(st.cards, row) |->
                                   getBullHeads(st.cards[ActiveRow(st.cards, row)[n]])])]

\* Step 4, the forced take: the row is collected when its last card is
\* above the card
CollectIfBelow(st, best_card, best_row) ==
    IF get_last_card_of_row(st.cards, best_row) # 0
       /\ st.cards[best_card].cardNumber
             < st.cards[get_last_card_of_row(st.cards, best_row)].cardNumber
    THEN CollectRow(st, best_row)
    ELSE st

\* Step 4, the five assignments that place the card
PlaceAiCard(st, best_card, best_row) ==
    [st EXCEPT !.cards[best_card] =
        [@ EXCEPT !.rowNumber = best_row,
                  !.isFlipped = TRUE,
                  !.isSelect = FALSE,
                  !.isInDrawPile = FALSE,
                  !.isInBullHeadStack = FALSE]]

\* Step 5: the row is collected when it now counts 6 cards or more
CollectIfOverflowed(st, row) ==
    IF count_cards_in_row(st.cards, row) >= 6 THEN CollectRow(st, row) ELSE st

makeAiMove(st) ==
    IF ai_hand(st.cards) = <<>> THEN st
    ELSE IF BestCard(st.cards).best_card = 0 \/ BestCard(st.cards).best_row = 0 THEN st
    ELSE CollectIfOverflowed(
             PlaceAiCard(CollectIfBelow(st, BestCard(st.cards).best_card,
                                        BestCard(st.cards).best_row),
                         BestCard(st.cards).best_card, BestCard(st.cards).best_row),
             BestCard(st.cards).best_row)

\* the first loop of calc_next: every row of exactly 6 cards goes to the
\* opposing penalty stack
PlayerOverflow(st) ==
    [st EXCEPT
        !.cards = [i \in DOMAIN st.cards |->
                     IF st.cards[i].rowNumber \in 1..4
                        /\ Len(RowOfBoard(st.cards, st.cards[i].rowNumber)) = 6
                     THEN [st.cards[i] EXCEPT !.rowNumber = 5,
                                              !.isInBullHeadStack = TRUE,
                                              !.isFlipped = TRUE]
                     ELSE st.cards[i]],
        !.playerScore = @ + SumSeq([r \in 1..4 |->
                                IF Len(RowOfBoard(st.cards, r)) = 6
                                THEN SumSeq([n \in DOMAIN RowOfBoard(st.cards, r) |->
                                               getBullHeads(st.cards[RowOfBoard(st.cards, r)[n]])])
                                ELSE 0])]

\* calc_next: the opposing overflow, the automated move, then Step 3 on
\* the rows 1 to 4
calc_next(st) ==
    CollectIfOverflowed(CollectIfOverflowed(CollectIfOverflowed(CollectIfOverflowed(
        makeAiMove(PlayerOverflow(st)), 1), 2), 3), 4)

\* the boards sent to POST / of main.py: a layout, the automated hand in
\* any order, the opposing hand
InitGreedy ==
    /\ \E layout \in Layouts, ai \in Hands(AiPool) \cup Orders(AiPool),
          player \in Hands(PlayerPool) :
          state = StartBoard(layout, ai, player, FALSE)
    /\ program = "main"
    /\ last = Op("init", state, 0, FALSE, 0, 0, "")
    /\ search = NoSearch

\* POST / of main.py: calc_next, then playerTurn = True; last.card is the
\* card makeAiMove plays (0 when it plays none)
ProcessRequestMain ==
    /\ program = "main"
    /\ ai_hand(state.cards) # <<>>
    /\ state' = [calc_next(state) EXCEPT !.playerTurn = TRUE]
    /\ last' = Op("greedy", state, BestCard(PlayerOverflow(state).cards).best_card,
                  FALSE, 0, 0, "")
    /\ UNCHANGED <<program, search>>

SpecGreedy == InitGreedy /\ [][ProcessRequestMain]_vars

----------------------------------------------------------------------------
(* find_best_ai_move of minimax_1.py on the boards a caller sends, with a  *)
(* depth that covers every ply left.                                       *)

\* a board of three cards a hand, with transpositions in its game tree
DeepBoard ==
    StartBoard(<<<<1, 13, 29>>, <<4>>, <<9, 25>>, <<5, 16, 21>>>>,
               <<6, 30, 3>>, <<14, 2, 7>>, FALSE)

AlphaBetaBoards ==
    {StartBoard(layout, ai, player, FALSE) :
        layout \in Layouts, ai \in Hands(AiPool), player \in Hands(PlayerPool)}
    \cup {StartBoard(StandardStart, <<a>>, <<p>>, FALSE) : a \in AiPool, p \in PlayerPool}
    \cup {DeepBoard}

InitAlphaBeta ==
    /\ state \in AlphaBetaBoards
    /\ program = "minimax_1"
    /\ last = Op("init", state, 0, FALSE, 0, 0, "")
    /\ search = NoSearch

\* the number of plies left on a board: one per hand card
FullDepth(st) == Len(get_ai_hand_indices(st.cards)) + Len(get_player_hand_indices(st.cards))

\* val, move = minimax(state, depth, -math.inf, math.inf, True, cache={});
\* the value is kept in search.reward as the fraction value / 100
FindBestAiMove ==
    /\ search.pc = "idle"
    /\ get_ai_hand_indices(state.cards) # <<>>
    /\ search' = [NoSearch EXCEPT
                    !.pc = "done",
                    !.reward = <<minimax(state, FullDepth(state), -INF, INF, TRUE, <<>>).value, 100>>]
    /\ last' = Op("minimax", state, 0, FALSE, 0, 0, "")
    /\ UNCHANGED <<state, program>>

SpecAlphaBeta == InitAlphaBeta /\ [][FindBestAiMove]_vars

----------------------------------------------------------------------------
(* Properties.                                                             *)

\* The penalty weight of a face value, by the precedence of the data model.
BullheadOfFace(n) ==
    IF n = 55 THEN 7
    ELSE IF n % 11 = 0 THEN 5
    ELSE IF n % 10 = 0 THEN 3
    ELSE IF n % 5 = 0 THEN 2
    ELSE 1

RECURSIVE BullheadsOf(_, _)
BullheadsOf(cards, S) ==
    IF S = {} THEN 0
    ELSE LET i == CHOOSE x \in S : TRUE
         IN BullheadOfFace(cards[i].cardNumber) + BullheadsOf(cards, S \ {i})

InPlay(cards) == {i \in DOMAIN cards : ~cards[i].isInBullHeadStack}
ActiveIn(cards, r) == {i \in DOMAIN cards : cards[i].rowNumber = r /\ ~cards[i].isInBullHeadStack}

\* The row end of the data model: the highest face among the active cards.
HighestFace(cards, r) ==
    CHOOSE f \in {cards[i].cardNumber : i \in ActiveIn(cards, r)} :
        \A i \in ActiveIn(cards, r) : cards[i].cardNumber <= f

\* the rows whose end is below the face
RowsBelow(cards, face) ==
    {r \in BoardRows : ActiveIn(cards, r) # {} /\ HighestFace(cards, r) < face}

\* r is the row whose end is the closest below the face
ClosestBelow(cards, face, r) ==
    /\ r \in RowsBelow(cards, face)
    /\ \A q \in RowsBelow(cards, face) : HighestFace(cards, q) <= HighestFace(cards, r)

\* the hands and the marked move, as the data model describes them
AutomatedHand(cards) == {i \in DOMAIN cards : cards[i].rowNumber = 0 /\ ~cards[i].isInBullHeadStack}
OpposingHand(cards) == {i \in DOMAIN cards : cards[i].rowNumber = 5 /\ ~cards[i].isInBullHeadStack}
Marked(cards) == {i \in DOMAIN cards : cards[i].rowNumber = 5 /\ cards[i].isSelect}

Engine == program \in {"MCTS", "minimax2"}
Resolved == Engine /\ last.op = "resolve"
PlayedFace == last.pre.cards[last.card].cardNumber

\* C1: bullhead conservation.  In every board reached through
\* resolve_card_placement, play_one_turn, simulate_turn and the turn
\* controllers, both scores plus the bullheads of the cards outside the
\* penalty stacks equal the bullheads of all cards.
C1_BullheadConservation ==
    Engine =>
        state.playerScore + state.aiScore + BullheadsOf(state.cards, InPlay(state.cards))
            = BullheadsOf(state.cards, DOMAIN state.cards)

\* a request resolved a round after both sides have taken cards
C1_Witness ==
    /\ Engine
    /\ last.op = "request" /\ last.outcome = "resolved"
    /\ state.playerScore > 0 /\ state.aiScore > 0
    /\ state.playerScore + state.aiScore > last.pre.playerScore + last.pre.aiScore

\* C2: closest-below placement.  When some row end is below the played
\* face, resolve_card_placement puts the card in the row whose end is the
\* highest among those below it, and deterministic_row_for_card names that
\* row for every hand card.
C2_ClosestBelow ==
    /\ (Resolved /\ RowsBelow(last.pre.cards, PlayedFace) # {})
          => ClosestBelow(last.pre.cards, PlayedFace, state.cards[last.card].rowNumber)
    /\ program = "minimax_1" =>
          \A i \in DOMAIN state.cards :
              (state.cards[i].rowNumber \in {0, 5} /\ ~state.cards[i].isInBullHeadStack
                 /\ RowsBelow(state.cards, state.cards[i].cardNumber) # {})
              => ClosestBelow(state.cards, state.cards[i].cardNumber,
                     deterministic_row_for_card(state.cards, state.cards[i].cardNumber))
    /\ (program = "minimax_1" /\ last.op = "place" /\ last.outcome = "placed")
          => ClosestBelow(last.pre.cards, PlayedFace, state.cards[last.card].rowNumber)

\* the example of the specification: ends 3, 17, 42 and an empty row, card 20
C2_Witness ==
    /\ Resolved
    /\ PlayedFace = 20
    /\ RowsBelow(last.pre.cards, 20) = {1, 2}
    /\ HighestFace(last.pre.cards, 1) = 3 /\ HighestFace(last.pre.cards, 2) = 17
    /\ HighestFace(last.pre.cards, 3) = 42 /\ ActiveIn(last.pre.cards, 4) = {}
    /\ state.cards[last.card].rowNumber = 2

ScoreOf(st, is_player) == IF is_player THEN st.playerScore ELSE st.aiScore
StackRow(is_player) == IF is_player THEN 5 ELSE 0

\* the active cards of row r went to the stack of the playing side, only
\* that side's score rose, by their bullheads, and the played card is alone
\* in row r at column 0
TookRow(pre, post, k, is_player, r) ==
    /\ \A i \in ActiveIn(pre.cards, r) :
          /\ post.cards[i].isInBullHeadStack
          /\ post.cards[i].rowNumber = StackRow(is_player)
    /\ \A i \in DOMAIN pre.cards :
          (i # k /\ i \notin ActiveIn(pre.cards, r)) => post.cards[i] = pre.cards[i]
    /\ ScoreOf(post, is_player) = ScoreOf(pre, is_player) + BullheadsOf(pre.cards, ActiveIn(pre.cards, r))
    /\ ScoreOf(post, ~is_player) = ScoreOf(pre, ~is_player)
    /\ ActiveIn(post.cards, r) = {k}
    /\ post.cards[k].colNumber = 0

\* r has the least bullhead sum among the rows with active cards
CheapestRow(cards, r) ==
    /\ ActiveIn(cards, r) # {}
    /\ \A q \in BoardRows : ActiveIn(cards, q) # {} =>
          BullheadsOf(cards, ActiveIn(cards, r)) <= BullheadsOf(cards, ActiveIn(cards, q))

OccupiedRows(cards) == {r \in BoardRows : ActiveIn(cards, r) # {}}

\* C3: forced take.  When the played face is below every row end,
\* resolve_card_placement makes the playing side take the row of least
\* bullhead sum among the rows with active cards: its cards go to that
\* side's penalty stack, that side's score rises by their sum, and the
\* played card is left alone in that row at column 0.
C3_ForcedTake ==
    (Resolved /\ RowsBelow(last.pre.cards, PlayedFace) = {}) =>
        \E r \in BoardRows :
            /\ OccupiedRows(last.pre.cards) # {} => CheapestRow(last.pre.cards, r)
            /\ TookRow(last.pre, state, last.card, last.side, r)

\* a card below four row ends of different sums took the cheapest, last row
C3_Witness ==
    /\ Resolved
    /\ RowsBelow(last.pre.cards, PlayedFace) = {}
    /\ OccupiedRows(last.pre.cards) = BoardRows
    /\ ActiveIn(state.cards, 4) = {last.card}
    /\ BullheadsOf(last.pre.cards, ActiveIn(last.pre.cards, 1))
          > BullheadsOf(last.pre.cards, ActiveIn(last.pre.cards, 4))
    /\ ScoreOf(state, last.side) > ScoreOf(last.pre, last.side)

\* C4: row overflow.  When the closest-below row already holds five active
\* cards, resolve_card_placement moves exactly those five to the playing
\* side's penalty stack, raises only that side's score, by their bullhead
\* sum, and leaves the played card the only active card of the row, at
\* column 0.
C4_RowOverflow ==
    Resolved =>
        \A r \in BoardRows :
            (ClosestBelow(last.pre.cards, PlayedFace, r) /\ Cardinality(ActiveIn(last.pre.cards, r)) = 5)
            => TookRow(last.pre, state, last.card, last.side, r)

\* a sixth card arrived in a row of five
C4_Witness ==
    /\ Resolved
    /\ \E r \in BoardRows :
          /\ ClosestBelow(last.pre.cards, PlayedFace, r)
          /\ Cardinality(ActiveIn(last.pre.cards, r)) = 5
          /\ ActiveIn(state.cards, r) = {last.card}
          /\ ScoreOf(state, last.side) >= ScoreOf(last.pre, last.side) + 5

\* C5: row capacity.  No row 1..4 of a board reached through
\* resolve_card_placement or through place_card of minimax_1 holds more than
\* five active cards.
C5_RowCapacity ==
    \A r \in BoardRows : Cardinality(ActiveIn(state.cards, r)) <= 5

\* a placement filled a row of four to five cards
C5_Witness ==
    /\ last.op \in {"resolve", "place"}
    /\ \E r \in BoardRows :
          /\ Cardinality(ActiveIn(last.pre.cards, r)) = 4
          /\ Cardinality(ActiveIn(state.cards, r)) = 5
          /\ state.cards[last.card].rowNumber = r

\* a round was resolved: by play_one_turn, simulate_turn or a controller
RoundResolved ==
    \/ last.op = "turn"
    \/ last.op = "request" /\ last.outcome = "resolved"

\* the board after card k of side is_player, then card j of the other side
InOrder(pre, k, is_player, j) ==
    resolve_card_placement(resolve_card_placement(pre, k, is_player), j, ~is_player)

\* the board after the lower face, then the higher face
LowerFirst(pre, ai_num, player_num) ==
    IF ai_num < player_num
    THEN InOrder(pre, FindCard(pre.cards, ai_num), FALSE, FindCard(pre.cards, player_num))
    ELSE InOrder(pre, FindCard(pre.cards, player_num), TRUE, FindCard(pre.cards, ai_num))

HigherFirst(pre, ai_num, player_num) ==
    IF ai_num < player_num
    THEN InOrder(pre, FindCard(pre.cards, player_num), TRUE, FindCard(pre.cards, ai_num))
    ELSE InOrder(pre, FindCard(pre.cards, ai_num), FALSE, FindCard(pre.cards, player_num))

SameBoard(a, b) ==
    /\ a.cards = b.cards
    /\ a.playerScore = b.playerScore
    /\ a.aiScore = b.aiScore

\* C6: turn resolution order.  play_one_turn, simulate_turn and
\* calculate_final_turn place the lower face first and the higher face
\* second, whichever side played which: the resulting cards and scores are
\* those of resolve_card_placement on the lower card, then on the higher.
C6_TurnOrder ==
    RoundResolved => SameBoard(state, LowerFirst(last.pre, last.ai, last.player))

\* the opposing side played the lower card, and the order made a difference
C6_Witness ==
    /\ RoundResolved
    /\ last.player < last.ai
    /\ ~SameBoard(state, HigherFirst(last.pre, last.ai, last.player))

\* C7: ended boards are absorbing.  process_request returns a board whose
\* hasEnded is true exactly as it received it, without running a search.
C7_EndedAbsorbing ==
    (last.op = "request" /\ last.pre.hasEnded) =>
        /\ state = last.pre
        /\ last.outcome = "ended"

\* an ended board arrived with a move marked and cards left in both hands
C7_Witness ==
    /\ last.op = "request"
    /\ last.pre.hasEnded
    /\ Marked(last.pre.cards) # {}
    /\ AutomatedHand(last.pre.cards) # {}
    /\ state.hasEnded

Controller(st) ==
    IF program = "MCTS" THEN calculate_final_turn(st) ELSE calculate_final_turn_minimax2(st)

\* C8: no move marked.  When no row-5 card is marked selected,
\* calculate_final_turn returns the board it received, and so does a second
\* call on the result.
C8_NoSelection ==
    (last.op = "request" /\ ~last.pre.hasEnded /\ Marked(last.pre.cards) = {}) =>
        /\ state = last.pre
        /\ last.outcome = "no_select"
        /\ \A r \in Controller(state) : r.board = state /\ r.outcome = "no_select"

\* both hands held cards, so a marked card would have been played
C8_Witness ==
    /\ last.op = "request"
    /\ last.outcome = "no_select"
    /\ AutomatedHand(last.pre.cards) # {}
    /\ OpposingHand(last.pre.cards) # {}
    /\ state = last.pre

\* C9: no automated cards.  When the automated hand is empty,
\* calculate_final_turn returns the board it received, also when a row-5
\* card is marked selected.
C9_NoAutomatedCards ==
    (last.op = "request" /\ ~last.pre.hasEnded /\ AutomatedHand(last.pre.cards) = {}) =>
        /\ state = last.pre
        /\ last.outcome \in {"no_select", "no_ai"}

\* the automated hand was empty and a card was marked
C9_Witness ==
    /\ last.op = "request"
    /\ last.outcome = "no_ai"
    /\ AutomatedHand(last.pre.cards) = {}
    /\ Marked(last.pre.cards) # {}
    /\ state = last.pre

\* C10: game end.  When the opposing hand is empty after
\* calculate_final_turn resolved a round, the board has ended; with
\* different scores exactly one of playerWon and aiWon is set, with equal
\* scores neither.
C10_GameEnd ==
    (last.op = "request" /\ last.outcome = "resolved" /\ OpposingHand(state.cards) = {}) =>
        /\ state.hasEnded
        /\ state.playerScore # state.aiScore => (state.playerWon # state.aiWon)
        /\ state.playerScore = state.aiScore => (~state.playerWon /\ ~state.aiWon)

\* the last round emptied the opposing hand with different scores
C10_Witness ==
    /\ last.op = "request" /\ last.outcome = "resolved"
    /\ ~last.pre.hasEnded
    /\ OpposingHand(state.cards) = {}
    /\ state.playerScore # state.aiScore
    /\ state.hasEnded

\* the last round emptied the opposing hand with equal scores
C10_TieReached ==
    /\ last.op = "request" /\ last.outcome = "resolved"
    /\ OpposingHand(state.cards) = {}
    /\ state.playerScore = state.aiScore
    /\ state.hasEnded

\* C11: winner flags.  In every board a request returns, playerWon and aiWon
\* are never both set, and at game end playerWon is set exactly when
\* playerScore < aiScore and aiWon exactly when aiScore < playerScore.
C11_WinnerFlags ==
    last.op = "request" =>
        /\ ~(state.playerWon /\ state.aiWon)
        /\ (last.outcome = "resolved" /\ state.hasEnded) =>
              /\ state.playerWon <=> state.playerScore < state.aiScore
              /\ state.aiWon <=> state.aiScore < state.playerScore
        /\ (last.outcome = "resolved" /\ ~state.hasEnded) =>
              ~state.playerWon /\ ~state.aiWon

\* the last round ended the game and the automated side won on the lower score
C11_Witness ==
    /\ last.op = "request" /\ last.outcome = "resolved"
    /\ ~last.pre.hasEnded /\ state.hasEnded
    /\ state.aiWon /\ ~state.playerWon
    /\ state.aiScore < state.playerScore

\* the last round ended the game and the opposing side won on the lower score
C11_PlayerWinReached ==
    /\ last.op = "request" /\ last.outcome = "resolved"
    /\ state.hasEnded /\ state.playerWon /\ ~state.aiWon
    /\ state.playerScore < state.aiScore

\* the hand of a side as the data model describes it (TRUE: opposing side)
HandOf(cards, player) == IF player THEN OpposingHand(cards) ELSE AutomatedHand(cards)

\* the positions of the candidates of card i in a list of moves
CandidatesOf(moves, i) == {n \in DOMAIN moves : moves[n][1] = i}

\* the hand cards of a side for which a closest-below row exists
WithRow(cards, player) ==
    {i \in HandOf(cards, player) : RowsBelow(cards, cards[i].cardNumber) # {}}

\* the candidates generate_moves_for_player gives are those of the data model
MovesAsSpecified(cards, player, moves) ==
    /\ \A n \in DOMAIN moves : moves[n][1] \in HandOf(cards, player)
    /\ \A i \in WithRow(cards, player) :
          /\ Cardinality(CandidatesOf(moves, i)) = 1
          /\ \A n \in CandidatesOf(moves, i) :
                /\ moves[n][3] = FALSE
                /\ ClosestBelow(cards, cards[i].cardNumber, moves[n][2])
    /\ \A i \in HandOf(cards, player) \ WithRow(cards, player) :
          /\ Cardinality(CandidatesOf(moves, i)) = 4
          /\ {moves[n][2] : n \in CandidatesOf(moves, i)} = BoardRows
          /\ \A n \in CandidatesOf(moves, i) : moves[n][3] = TRUE
    /\ Len(moves) = Cardinality(WithRow(cards, player))
                      + 4 * Cardinality(HandOf(cards, player) \ WithRow(cards, player))

\* C15: move generation.  For every board and side,
\* generate_moves_for_player gives candidates for the cards of that side's
\* hand only: one candidate (card, closest-below row, not forced) for a card
\* that has such a row, and four forced candidates, one per row 1..4, for a
\* card that has none; their number is the number of cards with a row plus
\* four times the number of cards without.
C15_MoveGeneration ==
    program = "minimax_1" =>
        \A player \in BOOLEAN :
            MovesAsSpecified(state.cards, player,
                             generate_moves_for_player(state.cards, player))

\* a ply applied a forced candidate for an empty row, generated for a hand of
\* one card with a closest-below row and one card without
C15_Witness ==
    /\ program = "minimax_1"
    /\ last.op = "place" /\ last.outcome = "took"
    /\ WithRow(last.pre.cards, last.side) # {}
    /\ last.card \in HandOf(last.pre.cards, last.side) \ WithRow(last.pre.cards, last.side)
    /\ Len(generate_moves_for_player(last.pre.cards, last.side)) = 5
    /\ ActiveIn(last.pre.cards, state.cards[last.card].rowNumber) = {}

\* the (face, row, inPenaltyStack) triples of a board
Triples(cards) ==
    {<<cards[i].cardNumber, cards[i].rowNumber, cards[i].isInBullHeadStack>> : i \in DOMAIN cards}

\* the same cards in the opposite list order
Reversed(cards) == [n \in DOMAIN cards |-> cards[Len(cards) + 1 - n]]

SameContent(a, b) ==
    /\ Triples(a.cards) = Triples(b.cards)
    /\ a.playerScore = b.playerScore
    /\ a.aiScore = b.aiScore

\* C14: canonical signature.  With unique faces state_hash does not depend
\* on the order of the cards in the list, and two boards have the same
\* signature exactly when they have the same (face, row, inPenaltyStack)
\* triples and the same two scores.
C14_CanonicalSignature ==
    /\ (state_hash(state) = state_hash(last.pre)) <=> SameContent(state, last.pre)
    /\ state_hash([state EXCEPT !.cards = Reversed(state.cards)]) = state_hash(state)

\* the same cards arrived in another list order and gave the same signature
C14_Witness ==
    /\ last.op = "reorder"
    /\ state.cards # last.pre.cards
    /\ SameContent(state, last.pre)
    /\ state_hash(state) = state_hash(last.pre)

\* a ply changed the content of the board, and the signature with it
C14_DifferentReached ==
    /\ last.op = "place"
    /\ \E i \in DOMAIN state.cards : i < Len(state.cards) /\
          state.cards[i].cardNumber = 19 /\ state.cards[i + 1].cardNumber = 8
    /\ ~SameContent(state, last.pre)
    /\ state_hash(state) # state_hash(last.pre)

\* the root children of a search
RootChildren(s) == SeqRange(s.nodes[1].children)

\* C16: final choice of the tree search.  After the iteration budget
\* find_best_move_mcts returns the move of a root child that no other root
\* child exceeds in visits, whatever the mean rewards, and that move is a
\* card of the automated hand of the board it was given.
C16_FinalChoice ==
    (last.op = "choose" /\ search.pc = "done") =>
        /\ \E c \in RootChildren(search) :
              /\ search.result = search.nodes[c].move
              /\ \A d \in RootChildren(search) :
                    search.nodes[d].visits <= search.nodes[c].visits
        /\ \E i \in AutomatedHand(state.cards) : state.cards[i].cardNumber = search.result

\* x has a higher mean reward than y
HigherMean(x, y) ==
    x.reward[1] * y.reward[2] * y.visits > y.reward[1] * x.reward[2] * x.visits

\* the chosen child has strictly more visits than another child whose mean
\* reward is strictly higher
C16_Witness ==
    /\ last.op = "choose"
    /\ search.pc = "done"
    /\ \E c, d \in RootChildren(search) :
          /\ search.result = search.nodes[c].move
          /\ search.nodes[d].visits < search.nodes[c].visits
          /\ search.nodes[d].visits > 0
          /\ HigherMean(search.nodes[d], search.nodes[c])

\* the node n and its ancestors, by the parent links
RECURSIVE PathToRoot(_, _)
PathToRoot(nodes, n) == IF n = 0 THEN {} ELSE {n} \cup PathToRoot(nodes, nodes[n].parent)

\* the fraction z is the sum of the fractions x and y
IsSum(z, x, y) == z[1] * x[2] * y[2] = (x[1] * y[2] + y[1] * x[2]) * z[2]

RECURSIVE SumOfVisits(_, _)
SumOfVisits(nodes, S) ==
    IF S = {} THEN 0
    ELSE LET c == CHOOSE x \in S : TRUE
         IN nodes[c].visits + SumOfVisits(nodes, S \ {c})

\* C17: backpropagation.  In each iteration the visits of the rolled-out
\* node and of each of its ancestors up to the root rise by exactly 1 and
\* their cumulative reward by exactly the rollout reward, and no other
\* node changes; after k iterations the root has k visits, and the visits
\* of a node are at least the sum of the visits of its children.
C17_Backpropagation ==
    /\ last.op = "backprop" =>
          /\ DOMAIN search.nodes = DOMAIN last.pre.nodes
          /\ \A k \in DOMAIN search.nodes :
                IF k \in PathToRoot(last.pre.nodes, last.pre.node)
                THEN /\ search.nodes[k].visits = last.pre.nodes[k].visits + 1
                     /\ IsSum(search.nodes[k].reward, last.pre.nodes[k].reward, last.pre.reward)
                     /\ [search.nodes[k] EXCEPT !.visits = 0, !.reward = 0]
                          = [last.pre.nodes[k] EXCEPT !.visits = 0, !.reward = 0]
                ELSE search.nodes[k] = last.pre.nodes[k]
    /\ search.nodes # <<>> =>
          /\ search.nodes[1].visits = search.iter
          /\ \A k \in DOMAIN search.nodes :
                search.nodes[k].visits >= SumOfVisits(search.nodes, SeqRange(search.nodes[k].children))

\* a rollout from a grandchild of the root was propagated through three
\* nodes while another child of the root stayed as it was
C17_Witness ==
    /\ last.op = "backprop"
    /\ Cardinality(PathToRoot(last.pre.nodes, last.pre.node)) = 3
    /\ Len(search.nodes) > 3
    /\ search.nodes[1].visits = search.iter
    /\ search.nodes[last.pre.node].visits = 1

\* the moves of the children of node k
ChildMoves(nodes, k) == {nodes[c].move : c \in SeqRange(nodes[k].children)}

\* the automated cards that are legal on a board
LegalMoves(board) == {board.cards[i].cardNumber : i \in AutomatedHand(board.cards)}

\* C18: expansion.  Each iteration attaches at most one new node, as a child
\* of the selected node, for one move taken out of that node's untried
\* moves and one card of the opposing hand, resolved by play_one_turn on a
\* copy; for every node whose board has a non-empty opposing hand the moves
\* of its children and its untried moves are disjoint and together are its
\* legal automated moves, and no two children carry the same card.
C18_Expansion ==
    /\ last.op = "expand" =>
          /\ Len(search.nodes) <= Len(last.pre.nodes) + 1
          /\ Len(search.nodes) = Len(last.pre.nodes) + 1 =>
                /\ search.nodes[Len(search.nodes)].parent = last.pre.node
                /\ search.nodes[last.pre.node].children
                      = Append(last.pre.nodes[last.pre.node].children, Len(search.nodes))
                /\ search.nodes[Len(search.nodes)].move \in SeqRange(last.pre.nodes[last.pre.node].untried_moves)
                /\ search.nodes[Len(search.nodes)].move \notin SeqRange(search.nodes[last.pre.node].untried_moves)
                /\ search.nodes[Len(search.nodes)].state # search.nodes[last.pre.node].state
                /\ \E i \in OpposingHand(last.pre.heap[last.pre.nodes[last.pre.node].state].cards) :
                      search.heap[search.nodes[Len(search.nodes)].state]
                        = LowerFirst(last.pre.heap[last.pre.nodes[last.pre.node].state],
                                     search.nodes[Len(search.nodes)].move,
                                     last.pre.heap[last.pre.nodes[last.pre.node].state].cards[i].cardNumber)
                /\ \A k \in DOMAIN last.pre.nodes :
                      k # last.pre.node => search.nodes[k] = last.pre.nodes[k]
    /\ search.pc # "idle" =>
          \A k \in DOMAIN search.nodes :
              OpposingHand(search.nodes[k].born.cards) # {} =>
                 /\ ChildMoves(search.nodes, k) \cap SeqRange(search.nodes[k].untried_moves) = {}
                 /\ ChildMoves(search.nodes, k) \cup SeqRange(search.nodes[k].untried_moves)
                       = LegalMoves(search.nodes[k].born)
                 /\ Cardinality(ChildMoves(search.nodes, k)) = Len(search.nodes[k].children)

\* the second child of the root was attached, for the other automated card
C18_Witness ==
    /\ last.op = "expand"
    /\ last.pre.node = 1
    /\ Len(last.pre.nodes[1].children) = 1
    /\ Len(search.nodes[1].children) = 2
    /\ search.nodes[1].untried_moves = <<>>
    /\ Cardinality(ChildMoves(search.nodes, 1)) = 2

\* the board of the rollout in progress
SimBoard(s) == s.heap[s.sim]

\* the passes of the loop that can still follow on a board
PassesLeft(board) ==
    IF Cardinality(AutomatedHand(board.cards)) <= Cardinality(OpposingHand(board.cards))
    THEN Cardinality(AutomatedHand(board.cards))
    ELSE Cardinality(OpposingHand(board.cards))

\* C19: rollout termination.  simulate_rollout terminates: each resolved
\* round takes exactly one card out of each hand, so the number of passes
\* left falls by one with each pass; no round is resolved when a hand is
\* empty; and the loop stops as soon as a hand is empty, with the reward
\* of the board as it then stands.
C19_RolloutTerminates ==
    /\ last.op = "round" =>
          /\ PassesLeft(SimBoard(last.pre)) > 0
          /\ Cardinality(AutomatedHand(SimBoard(search).cards))
                = Cardinality(AutomatedHand(SimBoard(last.pre).cards)) - 1
          /\ Cardinality(OpposingHand(SimBoard(search).cards))
                = Cardinality(OpposingHand(SimBoard(last.pre).cards)) - 1
          /\ PassesLeft(SimBoard(search)) = PassesLeft(SimBoard(last.pre)) - 1
    /\ last.op = "reward" =>
          /\ PassesLeft(SimBoard(last.pre)) = 0
          /\ SimBoard(search) = SimBoard(last.pre)
          /\ search.reward[1] * (1 + SimBoard(last.pre).aiScore) = search.reward[2]
    /\ search.pc = "rollout" =>
          (RolloutOver(SimBoard(search)) <=> PassesLeft(SimBoard(search)) = 0)

\* a rollout stopped with cards left in the opposing hand only
C19_Witness ==
    /\ last.op = "reward"
    /\ AutomatedHand(last.pre.heap[last.pre.sim].cards) = {}
    /\ OpposingHand(last.pre.heap[last.pre.sim].cards) # {}
    /\ search.pc = "backprop"

\* a rollout resolved a round and then stopped on two empty hands
C19_RoundReached ==
    /\ last.op = "round"
    /\ AutomatedHand(search.heap[search.sim].cards) = {}
    /\ OpposingHand(search.heap[search.sim].cards) = {}
\* C12: no mutation of input boards.  Through a search and through the
\* resolution of the turn that follows it, the board of the caller keeps the
\* content it was given with, and so does the board of every tree node and
\* of every call of a recursive search: a move is applied to a fresh copy,
\* never to the board of a parent or of a sibling.
C12_NoMutation ==
    search.pc # "idle" =>
       /\ search.heap[1] = state
       /\ \A k \in DOMAIN search.nodes :
             search.heap[search.nodes[k].state] = search.nodes[k].born
       /\ \A k \in DOMAIN search.frames :
             search.heap[search.frames[k].state] = search.frames[k].born

\* a call of a recursive search has branched to two boards that differ from
\* each other and from its own
C12_Witness ==
    /\ last.op \in {"branch", "clone"}
    /\ Len(search.frames) = 3
    /\ search.frames[2].parent = 1
    /\ search.frames[3].parent = 1
    /\ search.frames[2].born # search.frames[3].born
    /\ search.frames[2].born # search.frames[1].born
    /\ search.frames[3].born # search.frames[1].born

\* a rollout resolved a round from the board of a tree node
C12_RolloutReached ==
    /\ last.op = "round"
    /\ search.heap[search.sim] # search.heap[search.nodes[search.node].state]

\* the turn was resolved after a search, on a board other than the caller's
C12_ReturnReached ==
    /\ last.op = "return"
    /\ search.heap[Len(search.heap)] # state
\* C20: search with an empty automated hand.  When the automated hand of
\* the board is empty, find_best_move_mcts and find_best_ai_move end by
\* returning no move (None, the result 0), not by raising an error.
C20_NoMoveOnEmptyHand ==
    (AutomatedHand(state.cards) = {} /\ search.pc \in {"done", "raised"}) =>
        (search.pc = "done" /\ search.result = 0)

\* find_best_ai_move has returned None on a board without automated cards
C20_NoneReached ==
    /\ program = "minimax_1"
    /\ AutomatedHand(state.cards) = {}
    /\ search.pc = "done"
    /\ search.result = 0
\* the greatest and the least number of a set, with the value of an empty one
Greatest(S, none) == IF S = {} THEN none ELSE CHOOSE x \in S : \A y \in S : y <= x
Least(S, none) == IF S = {} THEN none ELSE CHOOSE x \in S : \A y \in S : x <= y

\* the board after a move of the move generator
AfterMove(st, player, m) == place_card(st, player, m[1], m[2], m[3])

\* plain minimax: the same stopping tests, move generator and evaluation,
\* every move searched, nothing remembered
RECURSIVE PlainMinimax(_, _, _)
PlainMinimax(st, depth, maximizing_player) ==
    IF depth = 0 \/ (AutomatedHand(st.cards) = {} /\ OpposingHand(st.cards) = {})
    THEN evaluate_state_for_ai(st)
    ELSE IF maximizing_player
    THEN Greatest({PlainMinimax(AfterMove(st, FALSE, m), depth - 1, FALSE) :
                      m \in SeqRange(generate_moves_for_player(st.cards, FALSE))}, -INF)
    ELSE Least({PlainMinimax(AfterMove(st, TRUE, m), depth - 1, TRUE) :
                   m \in SeqRange(generate_moves_for_player(st.cards, TRUE))}, INF)

\* C13: alpha-beta equals exhaustive minimax.  On every board of at most 4
\* cards a hand, searched to a depth that covers every ply left with the
\* window (-inf, +inf), minimax with pruning and cache returns the value of
\* plain minimax.
C13_SameValueAsPlainMinimax ==
    last.op = "minimax" =>
        search.reward[1] = PlainMinimax(state, FullDepth(state), TRUE)

\* a search of a board of two cards a hand returned the plain value
C13_AgreementReached ==
    /\ last.op = "minimax"
    /\ FullDepth(state) = 4
    /\ search.reward[1] = PlainMinimax(state, FullDepth(state), TRUE)

\* C21: the core never raises.  Every call of calculate_final_turn, of
\* either controller, on a board with unique faces and rows 0..5 returns a
\* board: no call ends in an exception.
C21_NeverRaises ==
    last.op = "final_turn" => last.outcome # "raise"

\* a call raised on a board that has not ended, whose opposing hand is
\* empty and whose mark lies on a card of the opposing penalty stack
C21_StackMarkReached ==
    /\ last.op = "final_turn"
    /\ last.outcome = "raise"
    /\ ~last.pre.hasEnded
    /\ OpposingHand(last.pre.cards) = {}
    /\ AutomatedHand(last.pre.cards) # {}
    /\ \E i \in DOMAIN last.pre.cards :
          /\ last.pre.cards[i].isSelect
          /\ last.pre.cards[i].rowNumber = 5
          /\ last.pre.cards[i].isInBullHeadStack

\* the search engine that computes the automated card of a call
EngineInUse == IF program = "MCTS" THEN "MCTS" ELSE "alpha-beta"

\* C22: strategy selection.  calculate_final_turn chooses the engine,
\* alpha-beta or MCTS, from the selector aiAlgo of the board: of two
\* successive calls that reach the search, those with the same selector are
\* served by the same engine and those with different selectors by
\* different engines.
C22_EngineBySelector ==
    [][(/\ last.op = "final_turn" /\ last.outcome = "resolved"
        /\ last'.op = "final_turn" /\ last'.outcome = "resolved")
       => ((last.pre.aiAlgo = last'.pre.aiAlgo) <=> (EngineInUse = EngineInUse'))]_vars

\* a call with the selector 1 was served by alpha-beta, and one with the
\* selector 0 by the tree search
C22_BothServedReached ==
    /\ last.op = "final_turn"
    /\ last.outcome = "resolved"
    /\ \/ last.pre.aiAlgo = 1 /\ EngineInUse = "alpha-beta"
       \/ last.pre.aiAlgo = 0 /\ EngineInUse = "MCTS"

\* C23: bullhead valuator.  For every face value of the deck, each of the
\* four valuators returns 7 for 55, else 5 for a multiple of 11, else 3 for
\* a multiple of 10, else 2 for a multiple of 5, else 1; the order in which
\* 10 and 11 are tested makes no difference on that range.
C23_Valuator ==
    last.op = "valuate" =>
        search.result = BullheadOfFace(last.pre.cards[1].cardNumber)

\* a multiple of 10, which is also one of 5, was valued 3 by the valuator
\* of main.py, which tests 10 before 11
C23_Witness ==
    /\ last.op = "valuate"
    /\ program = "main"
    /\ last.pre.cards[1].cardNumber % 10 = 0
    /\ search.result = 3

\* the faces 55 and 66 were valued by a valuator that tests 10 before 11
C23_ElevenReached ==
    /\ last.op = "valuate"
    /\ program = "minimax_1"
    /\ \/ last.pre.cards[1].cardNumber = 55 /\ search.result = 7
       \/ last.pre.cards[1].cardNumber = 66 /\ search.result = 5

\* 25 times the evaluation of the data model: 10 * (opposing score -
\* automated score) minus, for each row, (n / 5)^2 * its bullheads, n being
\* the number of its active cards; 10000, -10000 or 0 on an ended board
EvaluationAsSpecified(st) ==
    IF st.hasEnded
    THEN (IF st.aiWon THEN 250000 ELSE IF st.playerWon THEN -250000 ELSE 0)
    ELSE 250 * (st.playerScore - st.aiScore)
         - Cardinality(ActiveIn(st.cards, 1)) * Cardinality(ActiveIn(st.cards, 1))
              * BullheadsOf(st.cards, ActiveIn(st.cards, 1))
         - Cardinality(ActiveIn(st.cards, 2)) * Cardinality(ActiveIn(st.cards, 2))
              * BullheadsOf(st.cards, ActiveIn(st.cards, 2))
         - Cardinality(ActiveIn(st.cards, 3)) * Cardinality(ActiveIn(st.cards, 3))
              * BullheadsOf(st.cards, ActiveIn(st.cards, 3))
         - Cardinality(ActiveIn(st.cards, 4)) * Cardinality(ActiveIn(st.cards, 4))
              * BullheadsOf(st.cards, ActiveIn(st.cards, 4))

C24_WonReached == last.op = "evaluate" /\ last.pre.hasEnded /\ last.pre.aiWon /\ last.value = 250000
C24_LostReached == last.op = "evaluate" /\ last.pre.hasEnded /\ last.pre.playerWon /\ last.value = -250000
C24_TieReached == last.op = "evaluate" /\ last.pre.hasEnded /\ ~last.pre.playerWon /\ ~last.pre.aiWon /\ last.pre.playerScore > 0

\* the board is terminal for the search of the program in use
TerminalBoard(st) ==
    IF program = "minimax2" THEN st.hasEnded
    ELSE get_ai_hand_indices(st.cards) = <<>> /\ get_player_hand_indices(st.cards) = <<>>

\* C25: search leaves.  minimax_alpha_beta and minimax return the evaluation
\* of the given board and no move whenever depth = 0 or the board is
\* terminal, without simulating a move (minimax stores no cache entry).
C25_Leaves ==
    (last.op = "search" /\ (last.depth = 0 \/ TerminalBoard(last.pre))) =>
        IF program = "minimax2"
        THEN last.value = evaluate_board(last.pre) /\ last.move = 0
        ELSE /\ last.value = evaluate_state_for_ai(last.pre)
             /\ last.move = <<>>
             /\ minimax(last.pre, last.depth, -INF, INF, last.side, <<>>).cache = <<>>

\* an ended board with both hands dealt was searched at full depth by
\* minimax_alpha_beta
C25_Witness ==
    /\ last.op = "search" /\ program = "minimax2"
    /\ last.depth = SEARCH_DEPTH /\ last.pre.hasEnded
    /\ ai_hand(last.pre.cards) # <<>> /\ player_hand(last.pre.cards) # <<>>

\* a board in play was searched at depth 0, by either search
C25_DepthZeroReached ==
    /\ last.op = "search" /\ last.depth = 0 /\ ~TerminalBoard(last.pre)
    /\ ai_hand(last.pre.cards) # <<>> /\ player_hand(last.pre.cards) # <<>>

\* minimax was called at a depth above 0 on a board with both hands empty
C25_EmptyHandsReached ==
    /\ last.op = "search" /\ program = "minimax_1"
    /\ last.depth > 0 /\ TerminalBoard(last.pre)

\* the moves of the maximizing ply of minimax on the board, in the order the
\* loop visits them
VisitedAtMaxPly(st) ==
    SortedMoves(st.cards, generate_moves_for_player(st.cards, FALSE))

\* the penalty of a forced take: the bullheads of the row to be taken
TakePenalty(st, m) == BullheadsOf(st.cards, ActiveIn(st.cards, m[2]))

\* C27: move ordering.  At the maximizing ply of minimax the forced takes
\* are visited in ascending order of their penalty: a take of a cheaper row
\* is tried before a take of a costlier row.
C27_CheaperTakeFirst ==
    (last.op = "search" /\ program = "minimax_1" /\ last.side /\ last.depth > 0) =>
        \A i \in DOMAIN VisitedAtMaxPly(last.pre) :
            \A j \in DOMAIN VisitedAtMaxPly(last.pre) :
                ( /\ i < j
                  /\ VisitedAtMaxPly(last.pre)[i][3]
                  /\ VisitedAtMaxPly(last.pre)[j][3] )
                => TakePenalty(last.pre, VisitedAtMaxPly(last.pre)[i])
                      <= TakePenalty(last.pre, VisitedAtMaxPly(last.pre)[j])

\* the card of lowest face among the cards S of a board
LowestFaceOf(cards, S) ==
    CHOOSE i \in S : \A j \in S : cards[i].cardNumber <= cards[j].cardNumber

\* the predictable-opponent recursion without pruning: every card of the
\* side to move is tried against the lowest-face card of the other hand
RECURSIVE Unpruned(_, _, _)
Unpruned(st, depth, is_maximizing_player) ==
    IF depth = 0 \/ st.hasEnded
          \/ AutomatedHand(st.cards) = {} \/ OpposingHand(st.cards) = {}
    THEN evaluate_board(st)
    ELSE IF is_maximizing_player
    THEN Greatest({Unpruned(simulate_turn(st, a, LowestFaceOf(st.cards, OpposingHand(st.cards))),
                            depth - 1, FALSE) : a \in AutomatedHand(st.cards)}, -INF)
    ELSE Least({Unpruned(simulate_turn(st, LowestFaceOf(st.cards, AutomatedHand(st.cards)), p),
                         depth - 1, TRUE) : p \in OpposingHand(st.cards)}, INF)

\* a call of minimax_alpha_beta that runs the loop of the maximizing ply
AtMaximizingPly ==
    /\ last.op = "search" /\ program = "minimax2"
    /\ last.side /\ last.depth > 0 /\ ~last.pre.hasEnded
    /\ AutomatedHand(last.pre.cards) # {} /\ OpposingHand(last.pre.cards) # {}

\* C28: predictable-opponent variant.  At a maximizing ply of
\* minimax_alpha_beta every candidate automated card is simulated against
\* the lowest-face card of the opposing hand: the value returned is the
\* best value of those rounds and the card returned is one that reaches it.
C28_LowestOpposingCard ==
    AtMaximizingPly =>
        /\ last.value =
              Greatest({Unpruned(simulate_turn(last.pre, a,
                                    LowestFaceOf(last.pre.cards, OpposingHand(last.pre.cards))),
                                 last.depth - 1, FALSE) :
                           a \in AutomatedHand(last.pre.cards)}, -INF)
        /\ last.move \in AutomatedHand(last.pre.cards)
        /\ last.value =
              Unpruned(simulate_turn(last.pre, last.move,
                          LowestFaceOf(last.pre.cards, OpposingHand(last.pre.cards))),
                       last.depth - 1, FALSE)

\* a maximizing ply whose opposing hand does not start with its lowest card,
\* and where the first card of that hand would give another value
C28_Witness ==
    /\ AtMaximizingPly
    /\ last.depth = SEARCH_DEPTH
    /\ player_hand(last.pre.cards)[1] # LowestFaceOf(last.pre.cards, OpposingHand(last.pre.cards))
    /\ last.value #
          Greatest({Unpruned(simulate_turn(last.pre, a, player_hand(last.pre.cards)[1]),
                             last.depth - 1, FALSE) :
                       a \in AutomatedHand(last.pre.cards)}, -INF)

\* C29: pruning does not change the result.  minimax_alpha_beta called with
\* the window (-inf, +inf) returns the value of the same recursion without
\* the 'beta <= alpha' break, at every depth up to SEARCH_DEPTH and for
\* either side.
C29_PruningKeepsValue ==
    (last.op = "search" /\ program = "minimax2") =>
        last.value = Unpruned(last.pre, last.depth, last.side)

\* the board after the n-th candidate of the maximizing ply
NthChild(st, n) ==
    simulate_turn(st, ai_hand(st.cards)[n], LowestFaceOf(st.cards, OpposingHand(st.cards)))

\* a full-depth search in which the break cut a loop short: under the alpha
\* left by the candidates before it, the call on a later candidate returns a
\* bound that is not the value of its subtree
C29_Witness ==
    /\ AtMaximizingPly
    /\ last.depth = SEARCH_DEPTH
    /\ \E n \in 2..Len(ai_hand(last.pre.cards)) :
          minimax_alpha_beta(NthChild(last.pre, n), last.depth - 1,
                             Greatest({Unpruned(NthChild(last.pre, k), last.depth - 1, FALSE) :
                                          k \in 1..(n - 1)}, -INF),
                             INF, FALSE).value
             # Unpruned(NthChild(last.pre, n), last.depth - 1, FALSE)

\* the calls (board, depth, side) that a call of minimax can make, itself
\* included: every generated move at every ply
RECURSIVE CallsBelow(_, _, _)
CallsBelow(st, depth, maximizing_player) ==
    {<<st, depth, maximizing_player>>} \cup
    IF depth = 0 \/ (AutomatedHand(st.cards) = {} /\ OpposingHand(st.cards) = {})
    THEN {}
    ELSE UNION {CallsBelow(AfterMove(st, ~maximizing_player, m), depth - 1, ~maximizing_player) :
                   m \in SeqRange(generate_moves_for_player(st.cards, ~maximizing_player))}

\* the cache as a full-window call from an empty cache leaves it
CacheAfter(st, depth, maximizing_player) ==
    minimax(st, depth, -INF, INF, maximizing_player, <<>>).cache

\* C30: transposition cache soundness.  Every entry that minimax stores
\* under (state_hash(state), depth, side) holds the exact minimax value of
\* that state at that depth for that side, whatever window was in force.
C30_CacheHoldsExactValues ==
    (last.op = "search" /\ program = "minimax_1") =>
        LET cache == CacheAfter(last.pre, last.depth, last.side)
        IN  \A c \in CallsBelow(last.pre, last.depth, last.side) :
                CacheKey(c[1], c[2], c[3]) \in DOMAIN cache
                => cache[CacheKey(c[1], c[2], c[3])].value = PlainMinimax(c[1], c[2], c[3])

\* the rows of a board as the data model keeps them: the active cards of a
\* row sit in the columns 0..n-1 and their faces grow with the column
WellFormedRows(cards) ==
    \A r \in BoardRows :
        /\ {cards[i].colNumber : i \in ActiveIn(cards, r)}
              = 0..(Cardinality(ActiveIn(cards, r)) - 1)
        /\ \A i, j \in ActiveIn(cards, r) :
              /\ cards[i].colNumber = cards[j].colNumber => i = j
              /\ cards[i].colNumber < cards[j].colNumber
                    => cards[i].cardNumber < cards[j].cardNumber

\* the card's place and both scores: what a round decides
SamePlacements(a, b) ==
    /\ \A i \in DOMAIN a.cards :
          /\ a.cards[i].cardNumber = b.cards[i].cardNumber
          /\ a.cards[i].rowNumber = b.cards[i].rowNumber
          /\ a.cards[i].isInBullHeadStack = b.cards[i].isInBullHeadStack
    /\ a.playerScore = b.playerScore
    /\ a.aiScore = b.aiScore

\* the board the turn resolver gives for the automated card a and the
\* opposing card p (indices): the lower face first
ResolvedRound(pre, a, p) ==
    IF pre.cards[a].cardNumber < pre.cards[p].cardNumber
    THEN InOrder(pre, a, FALSE, p)
    ELSE InOrder(pre, p, TRUE, a)

\* the row the turn resolver puts a card of the round in when it resolves it
ResolverRow(pre, a, p, k) ==
    IF (pre.cards[a].cardNumber < pre.cards[p].cardNumber) = (k = a)
    THEN resolve_card_placement(pre, k, k = p).cards[k].rowNumber
    ELSE ResolvedRound(pre, a, p).cards[k].rowNumber

\* C31: search simulates rounds as the rules resolve them.  In minimax the
\* board after an automated ply followed by the opposing ply, each forced
\* take taking the row the turn resolver takes for that card, is the board
\* the turn resolver produces for the two cards (lower face first).
C31_PliesAsResolvedRound ==
    [][( /\ program = "minimax_1"
         /\ last.op = "place" /\ ~last.side
         /\ last'.op = "place" /\ last'.side
         /\ WellFormedRows(last.pre.cards)
         /\ last.outcome = "took"
               => state.cards[last.card].rowNumber
                     = ResolverRow(last.pre, last.card, last'.card, last.card)
         /\ last'.outcome = "took"
               => state'.cards[last'.card].rowNumber
                     = ResolverRow(last.pre, last.card, last'.card, last'.card) )
       => SamePlacements(state', ResolvedRound(last.pre, last.card, last'.card))]_vars

\* the same statement for the rounds without a forced take in the search
C31_PlainRounds ==
    [][( /\ program = "minimax_1"
         /\ last.op = "place" /\ ~last.side /\ last.outcome = "placed"
         /\ last'.op = "place" /\ last'.side /\ last'.outcome = "placed"
         /\ WellFormedRows(last.pre.cards) )
       => SamePlacements(state', ResolvedRound(last.pre, last.card, last'.card))]_vars

\* the automated card of a call of the greedy opponent goes to a row that
\* holds five active cards: the row r whose end is the closest below it
GreedyOverflow(r) ==
    /\ last.op = "greedy" /\ last.card # 0
    /\ ClosestBelow(last.pre.cards, last.pre.cards[last.card].cardNumber, r)
    /\ Cardinality(ActiveIn(last.pre.cards, r)) = 5

\* C32: row overflow in the greedy opponent.  When the automated card is
\* placed in a row that already holds 5 active cards, the automated side
\* takes exactly those 5 cards, its score rises by exactly their bullhead
\* sum, and the played card stays on the board as the row's only active card.
C32_GreedyOverflow ==
    \A r \in BoardRows :
        GreedyOverflow(r) =>
            /\ \A i \in ActiveIn(last.pre.cards, r) :
                  state.cards[i].isInBullHeadStack /\ state.cards[i].rowNumber = 0
            /\ state.aiScore = last.pre.aiScore
                                 + BullheadsOf(last.pre.cards, ActiveIn(last.pre.cards, r))
            /\ ActiveIn(state.cards, r) = {last.card}

\* C33: row-end consistency.  On every board the column-based engines
\* reach, the active cards of each row occupy the columns 0..n-1 without
\* gap or duplicate and their faces grow with the column; so the row end
\* resolve_card_placement picks by maximum column is the highest-face
\* active card of the row.
C33_RowEndConsistency ==
    Engine =>
        /\ WellFormedRows(state.cards)
        /\ \A r \in BoardRows :
              ActiveIn(state.cards, r) # {}
              => state.cards[RowEndByCol(state.cards, ActiveRow(state.cards, r))].cardNumber
                    = HighestFace(state.cards, r)

\* a card was appended to a row that a take had restarted from column 0:
\* the card that took the row comes later in the list than the card appended
C33_Witness ==
    /\ Resolved
    /\ \E r \in BoardRows :
          /\ state.cards[last.card].rowNumber = r
          /\ state.cards[last.card].colNumber >= 1
          /\ \E i \in ActiveIn(state.cards, r) :
                i > last.card /\ state.cards[i].colNumber = 0

\* the penalty stack of a side: the stacked cards with the side's row
StackOf(cards, is_player) ==
    {i \in DOMAIN cards : cards[i].isInBullHeadStack /\ cards[i].rowNumber = StackRow(is_player)}

\* each score is the bullhead sum of the side's penalty stack, and every
\* stacked card has row 0 or 5
Accounted(st) ==
    /\ st.aiScore = BullheadsOf(st.cards, StackOf(st.cards, FALSE))
    /\ st.playerScore = BullheadsOf(st.cards, StackOf(st.cards, TRUE))
    /\ \A i \in DOMAIN st.cards :
          st.cards[i].isInBullHeadStack => st.cards[i].rowNumber \in {0, 5}

\* C34: per-side accounting.  On every board reached from a start with both
\* scores 0 and empty penalty stacks, aiScore is the bullhead sum of the
\* stacked cards with row 0 and playerScore that of the stacked cards with
\* row 5, every stacked card has row 0 or 5, a card never leaves a penalty
\* stack, and neither score ever decreases.
C34_PerSideAccounting ==
    /\ []Accounted(state)
    /\ [][ /\ \A i \in DOMAIN state.cards :
                state.cards[i].isInBullHeadStack
                => /\ state'.cards[i].isInBullHeadStack
                   /\ state'.cards[i].rowNumber = state.cards[i].rowNumber
           /\ state'.aiScore >= state.aiScore
           /\ state'.playerScore >= state.playerScore ]_vars

\* both sides hold a penalty stack and the last placement took a row
C34_Witness ==
    /\ last.op \in {"resolve", "place"}
    /\ StackOf(state.cards, FALSE) # {} /\ StackOf(state.cards, TRUE) # {}
    /\ ScoreOf(state, last.side) > ScoreOf(last.pre, last.side)
    /\ ScoreOf(last.pre, last.side) > 0

----------------------------------------------------------------------------
(* Progress of a game played through the turn controller.                 *)

\* the board is one a game in progress sends: both hands hold the same
\* number n >= 1 of cards, the game has not ended, and exactly one card is
\* marked, a card of the opposing hand
RoundRequested(st) ==
    /\ ~st.hasEnded
    /\ Cardinality(OpposingHand(st.cards)) >= 1
    /\ Cardinality(AutomatedHand(st.cards)) = Cardinality(OpposingHand(st.cards))
    /\ Cardinality(Marked(st.cards)) = 1
    /\ Marked(st.cards) \subseteq OpposingHand(st.cards)

\* C35: a call of calculate_final_turn on a board in progress whose hands
\* hold n cards each, with exactly one opposing hand card selected, resolves
\* the round: each hand loses exactly one card (the selected card and one
\* automated card), so the hands stay equal, and hasEnded is set by the call
\* exactly when it was the one that emptied the hands, i.e. the n-th call of
\* a game of n rounds and no earlier one.
C35_GameProgress ==
    (Engine /\ last.op = "request" /\ RoundRequested(last.pre))
    => /\ last.outcome = "resolved"
       /\ \E a \in AutomatedHand(last.pre.cards) :
             AutomatedHand(state.cards) = AutomatedHand(last.pre.cards) \ {a}
       /\ OpposingHand(state.cards) = OpposingHand(last.pre.cards) \ Marked(last.pre.cards)
       /\ Cardinality(AutomatedHand(state.cards)) = Cardinality(OpposingHand(state.cards))
       /\ state.hasEnded <=> Cardinality(OpposingHand(last.pre.cards)) = 1

\* the second call of a game of two rounds has ended it
C35_Witness ==
    /\ Engine /\ last.op = "request" /\ RoundRequested(last.pre)
    /\ Cardinality(OpposingHand(last.pre.cards)) = 1
    /\ state.hasEnded
    /\ state.playerScore + state.aiScore > 0

\* the first call of a game of two rounds has not ended it
C35_FirstCallReached ==
    /\ Engine /\ last.op = "request" /\ RoundRequested(last.pre)
    /\ Cardinality(OpposingHand(last.pre.cards)) = HandSize
    /\ ~state.hasEnded

----------------------------------------------------------------------------
(* Frame of resolve_card_placement.                                        *)

\* the cards other than the played one that the last call changed
ChangedOthers ==
    {i \in DOMAIN last.pre.cards \ {last.card} : state.cards[i] # last.pre.cards[i]}

\* C36: resolve_card_placement changes only the played card and the active
\* cards of the one row that is taken, if any: every other card keeps all
\* its fields, the score of the side that did not play is unchanged, the
\* faces and the number of cards stay, and hasStarted, playerTurn, hasEnded,
\* playerWon, aiWon and aiAlgo are unchanged.
C36_PlacementFrame ==
    Resolved
    => /\ DOMAIN state.cards = DOMAIN last.pre.cards
       /\ \A i \in DOMAIN state.cards :
             state.cards[i].cardNumber = last.pre.cards[i].cardNumber
       /\ \/ ChangedOthers = {}
          \/ \E r \in 1..4 : ChangedOthers = ActiveIn(last.pre.cards, r)
       /\ ScoreOf(state, ~last.side) = ScoreOf(last.pre, ~last.side)
       /\ state.hasStarted = last.pre.hasStarted
       /\ state.playerTurn = last.pre.playerTurn
       /\ state.hasEnded = last.pre.hasEnded
       /\ state.playerWon = last.pre.playerWon
       /\ state.aiWon = last.pre.aiWon
       /\ state.aiAlgo = last.pre.aiAlgo

\* a placement that took a row of several cards while other rows held cards
C36_Witness ==
    /\ Resolved
    /\ Cardinality(ChangedOthers) >= 2
    /\ \E r \in 1..4 : ActiveIn(last.pre.cards, r) \ ChangedOthers # {}
    /\ ScoreOf(state, last.side) > ScoreOf(last.pre, last.side)

----------------------------------------------------------------------------
(* play_one_turn and the order of the card list.                           *)

\* what a round decides: row, column and penalty flag of every face, and
\* both scores
PlacementsOf(st) ==
    <<{<<st.cards[i].cardNumber, st.cards[i].rowNumber, st.cards[i].colNumber,
         st.cards[i].isInBullHeadStack>> : i \in DOMAIN st.cards},
      st.playerScore, st.aiScore>>

\* the lists that hold the cards of a board in another order: any two
\* positions exchanged, and the whole list reversed
Relisted(cards) ==
    {Exchanged(cards, i, j) : i, j \in DOMAIN cards} \cup {Reversed(cards)}

\* the rows of minimal bullhead sum among the non-empty rows
CheapestRows(cards) ==
    {r \in 1..4 :
        /\ ActiveIn(cards, r) # {}
        /\ \A q \in 1..4 :
              ActiveIn(cards, q) # {}
              => BullheadsOf(cards, ActiveIn(cards, r)) <= BullheadsOf(cards, ActiveIn(cards, q))}

\* the face is below the end of every non-empty row: a forced take
BelowEveryRow(cards, face) ==
    \A i \in DOMAIN cards :
        (cards[i].rowNumber \in 1..4 /\ ~cards[i].isInBullHeadStack)
        => \E j \in ActiveIn(cards, cards[i].rowNumber) : cards[j].cardNumber > face

\* C37: on a well-formed board, play_one_turn on the same cards listed in
\* another order gives every face the same row, column and penalty flag and
\* gives both sides the same score, also when two rows tie for the minimum
\* bullhead sum of a forced take.
C37_CardOrderIndependence ==
    (program = "MCTS" /\ last.op = "turn" /\ WellFormedRows(last.pre.cards))
    => \A cards \in Relisted(last.pre.cards) :
          PlacementsOf(play_one_turn([last.pre EXCEPT !.cards = cards],
                                     last.ai, last.player))
             = PlacementsOf(state)

\* a round whose lower card had to take a row while several rows tied for
\* the minimum bullhead sum, and whose higher card went behind a row end
C37_Witness ==
    /\ program = "MCTS" /\ last.op = "turn" /\ WellFormedRows(last.pre.cards)
    /\ BelowEveryRow(last.pre.cards, Min(last.ai, last.player))
    /\ Cardinality(CheapestRows(last.pre.cards)) >= 2
    /\ state.playerScore + state.aiScore > last.pre.playerScore + last.pre.aiScore
    /\ \E i \in DOMAIN state.cards :
          /\ state.cards[i].cardNumber = Max(last.ai, last.player)
          /\ state.cards[i].colNumber >= 1

----------------------------------------------------------------------------
(* The rounds of the search and the rounds of the controller, minimax2.py. *)

\* C38: for every pair of an automated and an opposing hand card, the board
\* simulate_turn returns for the pair has the placements, penalty stacks and
\* scores of the board calculate_final_turn produces when it plays the pair:
\* on every board for every pair, and on every answered request for the
\* pair that was played.
C38_SimulationFidelity ==
    program = "minimax2"
    => /\ \A a \in AutomatedHand(state.cards), p \in OpposingHand(state.cards) :
             PlacementsOf(simulate_turn(state, a, p))
                = PlacementsOf(FinalTurnMinimax2(state, state.cards[a].cardNumber,
                                                 state.cards[p].cardNumber).board)
       /\ (last.op = "request" /\ last.outcome = "resolved")
          => PlacementsOf(simulate_turn(last.pre, FindCard(last.pre.cards, last.ai),
                                        FindCard(last.pre.cards, last.player)))
                = PlacementsOf(state)

\* an answered request whose opposing card was the lower one and whose round
\* sent cards to a penalty stack
C38_Witness ==
    /\ program = "minimax2" /\ last.op = "request" /\ last.outcome = "resolved"
    /\ last.player < last.ai
    /\ state.playerScore + state.aiScore > last.pre.playerScore + last.pre.aiScore
    /\ \E i \in DOMAIN state.cards : state.cards[i].colNumber >= 1 /\ state.cards[i].rowNumber \in 1..4

----------------------------------------------------------------------------
(* The result of find_best_ai_move, minimax_1.py lines 383-402.            *)

\* find_best_ai_move was called: the root call of minimax for the automated
\* side, at a depth of 1 or more, on a board whose automated hand holds a card
BestMoveAsked ==
    /\ program = "minimax_1"
    /\ last.op = "search"
    /\ last.side
    /\ last.depth >= 1
    /\ AutomatedHand(last.pre.cards) # {}

\* C39: on every board whose automated hand is not empty, at every depth of
\* 1 or more and whatever the size of the opposing hand, find_best_ai_move
\* returns one of the moves generate_moves_for_player gives the automated
\* side, and the value minimax computes for the root is finite.
C39_LegalResult ==
    BestMoveAsked
    => /\ last.move \in SeqRange(generate_moves_for_player(last.pre.cards, FALSE))
       /\ -INF < last.value
       /\ last.value < INF

\* the search returned a move of the automated side with a finite value on a
\* board whose hands differ in size
C39_UnevenHandsReached ==
    /\ BestMoveAsked
    /\ Cardinality(AutomatedHand(last.pre.cards)) # Cardinality(OpposingHand(last.pre.cards))
    /\ last.move \in SeqRange(generate_moves_for_player(last.pre.cards, FALSE))
    /\ last.value > -INF

\* the search returned no move on a board whose automated hand holds a card
C39_NoMoveReached ==
    /\ BestMoveAsked
    /\ last.move = <<>>
    /\ last.value = -INF

============================================================================
